---- MODULE Spec2Model ----
(***************************************************************************)
(* EduMentor-AI: the deduplicating ingestion pipeline (rag/ingest.py), the *)
(* retriever and its confidence verdict (rag/retriever.py), the learner    *)
(* profile store (tutor/personalize.py), the text-overlap metrics          *)
(* (eval/metrics.py), the user store (auth.py) and the Streamlit session   *)
(* with its evaluation log (app.py, eval/logger.py), as state machines.    *)
(*                                                                         *)
(* Numbers.  Similarity scores and thresholds are fixed-point integers in  *)
(* units of 10^-5 (0.3 is 30000, 1.0 is 100000); a score rounded to 4      *)
(* decimals is an integer in units of 10^-4.  Quiz percentages are in      *)
(* tenths of a percent (50.0 is 500).                                      *)
(***************************************************************************)
EXTENDS Integers, Sequences, FiniteSets, TLC

VARIABLES
    dirExists,   \* CHROMA_PERSIST_DIR exists on disk
    index,       \* the "edu_mentor" collection: sequence of stored chunks
    hashFile,    \* the persisted file-hash JSON (name -> hash); the empty
                 \* mapping when the file does not exist
    last,        \* observation: the last call of ingest_pdfs, retrieve or
                 \* clear_vector_store, its inputs and its outcome
    profile,     \* the LearnerProfile of the session
    clock,       \* wall clock (seconds) read by datetime.now()
    ret,         \* observation: the last call on the profile and its
                 \* return value
    hypothesis,  \* metrics: the hypothesis text (a sequence of characters)
    reference,   \* metrics: the reference text
    metric,      \* observation: the last metric call and its result
    users,       \* the persisted user store (users.json): lower-cased
                 \* username -> user record
    auth,        \* observation: the last call of auth.py and its result
    logged_in,   \* st.session_state.logged_in
    username,    \* st.session_state.username
    chat_history,\* st.session_state.chat_history
    last_chunks, \* st.session_state.last_chunks
    logs,        \* st.session_state.logs
    quiz_data,   \* st.session_state.quiz_data
    quiz_answers,\* st.session_state.quiz_answers
    quiz_results,\* st.session_state.quiz_results
    turns,       \* observation: chat turns run and chat turns answered
    sess,        \* observation: the last handler run of the session
    questions,   \* grader: the questions of the quiz being graded
    user_answers,\* grader: the learner's answers, in question order
    grading,     \* observation: the last call of grade_quiz and its result
    hypWords,    \* metrics: a tokenised hypothesis
    refWords,    \* metrics: a tokenised reference
    tokenMetric, \* observation: the last metric call on the token lists
    pc,          \* per running call on the user store: its position
    loaded,      \* per running call on the user store: the mapping that
                 \* its _load_users() returned
    scoreInput,  \* retriever: the relevance scores of the results
    thresholdInput, \* retriever: the similarity_threshold of the call
    verdict      \* observation: the result built from them

storeVars == <<dirExists, index, hashFile, last>>
profileVars == <<profile, clock, ret>>
metricVars == <<hypothesis, reference, metric>>
authVars == <<users, auth>>
sessionVars == <<logged_in, username, chat_history, last_chunks, logs,
                 quiz_data, quiz_answers, quiz_results, turns, sess>>
graderVars == <<questions, user_answers, grading>>
tokenVars == <<hypWords, refWords, tokenMetric>>
callVars == <<pc, loaded>>
verdictVars == <<scoreInput, thresholdInput, verdict>>
vars == <<storeVars, profileVars, metricVars, authVars, sessionVars,
          graderVars, tokenVars, callVars, verdictVars>>

----------------------------------------------------------------------------
(* Bounds of the model *)

MaxBatch == 2      \* files per ingest_pdfs call
MaxIndex == 3      \* chunks the collection may hold
MaxTopK == 2       \* largest top_k passed to retrieve
MaxQuiz == 3       \* quiz attempts recorded in a session

----------------------------------------------------------------------------
(* Small helpers *)

Min(a, b) == IF a <= b THEN a ELSE b

Range(s) == {s[i] : i \in 1..Len(s)}

\* sequences over S of length lo..hi
SeqsOf(S, lo, hi) == UNION {[1..n -> S] : n \in lo..hi}

----------------------------------------------------------------------------
(* rag/ingest.py *)

\* File contents are "one", "two" or "corrupt".  What PyPDFLoader and the
\* splitter make of them is fixed by the bytes: "one" yields one chunk,
\* "two" yields two, "corrupt" makes PyPDFLoader.load raise.

\* the uploads of a session: a.pdf in two versions, b.pdf good or corrupt
UploadedFiles ==
    {[name |-> "a.pdf", bytes |-> "one"], [name |-> "a.pdf", bytes |-> "two"],
     [name |-> "b.pdf", bytes |-> "one"], [name |-> "b.pdf", bytes |-> "corrupt"]}

Batches == SeqsOf(UploadedFiles, 1, MaxBatch)

compute_file_hash(file_bytes) == <<"sha256", file_bytes>>

\* the dict of _load_hash_store: {} when HASH_CACHE_FILE does not exist
load_hash_store == hashFile

\* mutant: the lookup compares against a hash of the name, not of the bytes
AlreadyIngestedHashOfName(hash_store, file_name, file_hash) ==
    /\ file_name \in DOMAIN hash_store
    /\ hash_store[file_name] = compute_file_hash(file_name)

\* hash_store.get(file_name) == file_hash
AlreadyIngested(hash_store, file_name, file_hash) ==
    /\ file_name \in DOMAIN hash_store
    /\ hash_store[file_name] = file_hash

\* hash_store[file_name] = file_hash
HashPut(hash_store, file_name, file_hash) ==
    [n \in DOMAIN hash_store \cup {file_name} |->
        IF n = file_name THEN file_hash ELSE hash_store[n]]

\* loader.load(): raises on a file that is no PDF
LoaderRaises(file_bytes) == file_bytes = "corrupt"

ChunkCount(file_bytes) ==
    CASE file_bytes = "one" -> 1
      [] file_bytes = "two" -> 2
      [] OTHER -> 0

\* splitter.split_documents(pages), every chunk carrying metadata.source
split_documents(f) ==
    [k \in 1..ChunkCount(f.bytes) |->
        [source |-> f.name, bytes |-> f.bytes, part |-> k]]

\* The for loop of ingest_pdfs from file i on.  acc carries the locals:
\* hash_store, all_docs, ingested_count, skipped_count, plus what the loop
\* did to the disk (made_dir), which files it chunked (processed) and
\* whether load() raised out of the try/finally (raised).
RECURSIVE IngestLoop(_, _, _)
IngestLoop(files, i, acc) ==
    IF i > Len(files) THEN acc
    ELSE LET f == files[i]
             file_hash == compute_file_hash(f.bytes)
         IN  IF AlreadyIngested(acc.hash_store, f.name, file_hash)
             THEN IngestLoop(files, i + 1, [acc EXCEPT !.skipped = @ + 1])
             ELSE IF LoaderRaises(f.bytes)
             THEN [acc EXCEPT !.made_dir = TRUE, !.raised = TRUE]
             ELSE IngestLoop(files, i + 1,
                     [acc EXCEPT !.made_dir = TRUE,
                                 !.all_docs = @ \o split_documents(f),
                                 !.hash_store = HashPut(@, f.name, file_hash),
                                 !.ingested = @ + 1,
                                 !.processed = Append(@, i)])

IngestLocals(files) ==
    IngestLoop(files, 1,
        [hash_store |-> load_hash_store, all_docs |-> <<>>, ingested |-> 0,
         skipped |-> 0, made_dir |-> FALSE, processed |-> <<>>,
         raised |-> FALSE])

\* How the call ends: load() raising leaves ingest_pdfs through the
\* try/finally; Chroma.from_documents raises when the embedding provider
\* fails (embedOk false) and is called only with documents to embed.
IngestStatus(r, embedOk) ==
    IF r.raised THEN "parse_error"
    ELSE IF r.all_docs # <<>> /\ ~embedOk THEN "embed_error"
    ELSE "ok"

\* mutant: the hash record is saved before the embedding call
HashFileSavedBeforeEmbed(status, hash_store) ==
    IF status # "parse_error" THEN hash_store ELSE hashFile

\* _save_hash_store(hash_store) is the last statement before the return:
\* it runs only when nothing raised
HashFileAfter(status, hash_store) ==
    IF status = "ok" THEN hash_store ELSE hashFile

\* Chroma.from_documents adds the batch to the collection, or raises with
\* nothing added
IndexAfter(status, all_docs) ==
    IF status = "ok" THEN index \o all_docs ELSE index

\* the counters of the return statement; the caller gets them only when the
\* call ends "ok"
IngestSummary(r) ==
    [ingested |-> r.ingested, skipped |-> r.skipped,
     total_chunks |-> Len(r.all_docs)]

\* observation of the call before this one: was it clear_vector_store, and
\* which hash record did it wipe
AfterClear == last.op = "clear"
WipedByClear == IF last.op = "clear" THEN last.wiped ELSE <<>>

\* ingest_pdfs(uploaded_files, api_key)
ingest_pdfs(files, embedOk) ==
    LET r == IngestLocals(files)
        status == IngestStatus(r, embedOk)
    IN  /\ Len(index) + Len(r.all_docs) <= MaxIndex
        /\ dirExists' = (dirExists \/ r.made_dir)
        /\ index' = IndexAfter(status, r.all_docs)
        /\ hashFile' = HashFileAfter(status, r.hash_store)
        /\ last' = [op |-> "ingest", files |-> files,
                    processed |-> r.processed, status |-> status,
                    summary |-> IngestSummary(r),
                    after_clear |-> AfterClear, wiped |-> WipedByClear]
        /\ UNCHANGED <<profileVars, metricVars, authVars, sessionVars,
                 graderVars, tokenVars, callVars, verdictVars>>

\* mutant: the hash file lives outside the directory that is removed
clear_keeps_hash_file ==
    /\ dirExists' = FALSE
    /\ index' = <<>>
    /\ hashFile' = hashFile
    /\ last' = [op |-> "clear", status |-> "ok", wiped |-> hashFile]
    /\ UNCHANGED <<profileVars, metricVars, authVars, sessionVars,
                 graderVars, tokenVars, callVars, verdictVars>>

\* clear_vector_store(): shutil.rmtree(CHROMA_PERSIST_DIR); the hash file
\* lives in that directory
clear_vector_store ==
    /\ dirExists' = FALSE
    /\ index' = <<>>
    /\ hashFile' = <<>>
    /\ last' = [op |-> "clear", status |-> "ok", wiped |-> hashFile]
    /\ UNCHANGED <<profileVars, metricVars, authVars, sessionVars,
                 graderVars, tokenVars, callVars, verdictVars>>

----------------------------------------------------------------------------
(* rag/retriever.py *)

SIMILARITY_THRESHOLD == 30000     \* 0.3

\* the sentinel score 1.0 of the unscored fallback
FallbackScore == 100000

\* relevance scores the store may report: 0.1, 0.29996, 0.3, 0.9
Scores == {10000, 29996, 30000, 90000}

\* similarity_threshold values: the default, 1.0 and one above every score
Thresholds == {SIMILARITY_THRESHOLD, 100000, 120000}

\* What the provider does to one retrieve call: "scored" - the relevance
\* search answers; "unscored" - it raises and similarity_search answers;
\* "down" - both raise (the query cannot be embedded).
Providers == {"scored", "unscored", "down"}

\* n / d rounded to the nearest integer, ties to even (Python's round), d > 0
RoundDiv(n, d) ==
    LET q == n \div d
        r == n % d
    IN  IF 2 * r < d THEN q
        ELSE IF 2 * r > d THEN q + 1
        ELSE IF q % 2 = 0 THEN q ELSE q + 1

\* round(x, 4) of a score in units of 10^-5, in units of 10^-4
Round4(x) == RoundDiv(x, 10)

RECURSIVE PySum(_)
PySum(s) == IF s = <<>> THEN 0 ELSE s[1] + PySum(Tail(s))

\* max(scores), scores non-empty: the first of the largest
RECURSIVE PyMax(_)
PyMax(s) ==
    IF Len(s) = 1 THEN s[1]
    ELSE LET m == PyMax(Tail(s)) IN IF m > s[1] THEN m ELSE s[1]

\* mutant: the verdict is taken from the mean score
IsConfidentByAverage(scores, similarity_threshold) ==
    IF scores # <<>>
    THEN PySum(scores) >= similarity_threshold * Len(scores)
    ELSE FALSE

\* (max(scores) >= similarity_threshold) if scores else False
IsConfident(scores, similarity_threshold) ==
    IF scores # <<>> THEN PyMax(scores) >= similarity_threshold ELSE FALSE

\* mutant: the best score is reported in place of the mean
AvgScoreOfBest(scores) ==
    IF scores # <<>> THEN Round4(PyMax(scores)) ELSE 0

\* round(sum(scores) / len(scores) if scores else 0.0, 4), units of 10^-4
AvgScore(scores) ==
    IF scores # <<>> THEN RoundDiv(PySum(scores), Len(scores) * 10) ELSE 0

\* mutant: the fallback marks its results with score 0.0
FallbackScoresZero(docs) == [i \in 1..Len(docs) |-> 0]

\* results = [(doc, 1.0) for doc in docs]
FallbackScores(docs) == [i \in 1..Len(docs) |-> FallbackScore]

\* get_vectorstore: None when the store directory does not exist
get_vectorstore == IF dirExists THEN "Chroma" ELSE "None"

EmptyResult == [chunks |-> <<>>, is_confident |-> FALSE, avg_score |-> 0]

\* lines 73-90: the result built from the (doc, score) pairs
BuildResult(docs, scores, similarity_threshold) ==
    [chunks |-> [i \in 1..Len(docs) |->
                    [content |-> docs[i], score |-> Round4(scores[i])]],
     is_confident |-> IsConfident(scores, similarity_threshold),
     avg_score |-> AvgScore(scores)]

\* strictly increasing sequences of n positions of the collection
Picks(n) ==
    {p \in [1..n -> 1..Len(index)] :
        \A i \in 1..(n - 1) : p[i] < p[i + 1]}

\* the scores of n results in descending relevance
Descending(n) ==
    {s \in [1..n -> Scores] : \A i \in 1..(n - 1) : s[i] >= s[i + 1]}

\* retrieve(query, api_key, top_k, similarity_threshold).  The store answers
\* with min(top_k, collection size) chunks: picked are their positions in
\* the collection, relevance their scores.
retrieve(similarity_threshold, provider, picked, relevance) ==
    LET call == [op |-> "retrieve", threshold |-> similarity_threshold,
                 provider |-> provider, after_clear |-> AfterClear]
        docs == [i \in 1..Len(picked) |-> index[picked[i]]]
        scores == IF provider = "scored" THEN relevance
                  ELSE FallbackScores(docs)
    IN  /\ last' =
             IF get_vectorstore = "None"
             THEN call @@ [status |-> "ok", fallback |-> FALSE,
                           scores |-> <<>>, result |-> EmptyResult]
             ELSE IF provider = "down"
             THEN call @@ [status |-> "raised"]
             ELSE call @@ [status |-> "ok",
                           fallback |-> (provider = "unscored"),
                           scores |-> scores,
                           result |-> BuildResult(docs, scores,
                                                  similarity_threshold)]
        /\ UNCHANGED <<dirExists, index, hashFile>>
        /\ UNCHANGED <<profileVars, metricVars, authVars, sessionVars,
                 graderVars, tokenVars, callVars, verdictVars>>

Retrieve ==
    \E similarity_threshold \in Thresholds, provider \in Providers,
       top_k \in 1..MaxTopK :
        LET n == Min(top_k, Len(index))
        IN  \E picked \in Picks(n) :
                \E relevance \in (IF provider = "scored" THEN Descending(n)
                                  ELSE {<<>>}) :
                    retrieve(similarity_threshold, provider, picked, relevance)

----------------------------------------------------------------------------
(* rag/retriever.py, lines 73-90 as a function of the scores the store     *)
(* reports and of similarity_threshold                                     *)

MaxScores == 3     \* results of one retrieve call

\* the scores of the results: Scores and 0.2
AssessedScores == Scores \cup {20000}

\* lines 73-90 applied to the scores of the call
Assess ==
    /\ verdict' = [op |-> "retrieve",
                   result |-> BuildResult(
                       [i \in 1..Len(scoreInput) |-> "chunk"],
                       scoreInput, thresholdInput)]
    /\ UNCHANGED <<scoreInput, thresholdInput>>
    /\ UNCHANGED <<storeVars, profileVars, metricVars, authVars, sessionVars,
                   graderVars, tokenVars, callVars>>

----------------------------------------------------------------------------
(* tutor/personalize.py *)

\* prompts handed to record_concept (prompt[:60]); "" is the empty concept
AskedConcepts == {"X", "Y", ""}

\* quiz topics handed to record_quiz_score
QuizConcepts == {"X", "Y"}

\* (score, max_score) of a graded quiz: 40%, 90%, an empty quiz (max_score
\* 0) and 49.975%, which rounds to 50.0
ScorePairs == {<<2, 5>>, <<9, 10>>, <<0, 0>>, <<1999, 4000>>}

\* round((score / max_score) * 100, 1) if max_score > 0 else 0, in tenths
Percentage(score, max_score) ==
    IF max_score > 0 THEN RoundDiv(score * 1000, max_score) ELSE 0

\* the dict appended to quiz_scores
QuizEntry(concept, score, max_score, now) ==
    [concept |-> concept, score |-> score, max_score |-> max_score,
     percentage |-> Percentage(score, max_score), timestamp |-> now]

\* mutant: the scan does not filter by concept
LowScoresAnyConcept(quiz_scores, concept) ==
    SelectSeq(quiz_scores, LAMBDA s : s.percentage < 500)

\* [s for s in quiz_scores if s["concept"] == concept and s["percentage"] < 50]
LowScores(quiz_scores, concept) ==
    SelectSeq(quiz_scores,
              LAMBDA s : s.concept = concept /\ s.percentage < 500)

\* mutant: a passing attempt clears the flag
FlagWeakUntilPassed(weak_concepts, quiz_scores, concept) ==
    LET concept_scores == LowScores(quiz_scores, concept)
    IN  IF quiz_scores[Len(quiz_scores)].percentage >= 500
        THEN SelectSeq(weak_concepts, LAMBDA c : c # concept)
        ELSE IF Len(concept_scores) >= 2 /\ concept \notin Range(weak_concepts)
        THEN Append(weak_concepts, concept)
        ELSE weak_concepts

\* lines 61-67: concept_scores = the low scores of the concept;
\* if len(concept_scores) >= 2 and concept not in weak_concepts: append
FlagWeak(weak_concepts, quiz_scores, concept) ==
    LET concept_scores == LowScores(quiz_scores, concept)
    IN  IF Len(concept_scores) >= 2 /\ concept \notin Range(weak_concepts)
        THEN Append(weak_concepts, concept)
        ELSE weak_concepts

\* mutant: the membership test is missing
AskedAfterAlways(concepts_asked, concept) ==
    IF concept # "" THEN Append(concepts_asked, concept) ELSE concepts_asked

\* if concept and concept not in concepts_asked: append
AskedAfter(concepts_asked, concept) ==
    IF concept # "" /\ concept \notin Range(concepts_asked)
    THEN Append(concepts_asked, concept)
    ELSE concepts_asked

record_concept(concept) ==
    /\ profile' = [profile EXCEPT
                     !.concepts_asked = AskedAfter(@, concept)]
    /\ ret' = [op |-> "record_concept", concept |-> concept]
    /\ UNCHANGED clock
    /\ UNCHANGED <<storeVars, metricVars, authVars, sessionVars,
                 graderVars, tokenVars, callVars, verdictVars>>

\* datetime.now() has a resolution of one second: the clock has moved on by
\* elapsed = 0 or 1 since the previous reading
record_quiz_score(concept, score, max_score, elapsed) ==
    LET now == clock + elapsed
        quiz_scores ==
            Append(profile.quiz_scores,
                   QuizEntry(concept, score, max_score, now))
    IN  /\ Len(profile.quiz_scores) < MaxQuiz
        /\ profile' = [profile EXCEPT
                         !.quiz_scores = quiz_scores,
                         !.weak_concepts =
                             FlagWeak(@, quiz_scores, concept)]
        /\ clock' = now
        /\ ret' = [op |-> "record_quiz_score"]
        /\ UNCHANGED <<storeVars, metricVars, authVars, sessionVars,
                 graderVars, tokenVars, callVars, verdictVars>>

\* sorted(..., key=timestamp): stable insertion of e into a sorted sequence
RECURSIVE InsertByTimestamp(_, _)
InsertByTimestamp(sorted, e) ==
    IF sorted = <<>> THEN <<e>>
    ELSE LET n == Len(sorted)
         IN  IF sorted[n].timestamp <= e.timestamp THEN Append(sorted, e)
             ELSE Append(InsertByTimestamp(SubSeq(sorted, 1, n - 1), e),
                         sorted[n])

RECURSIVE SortedByTimestamp(_)
SortedByTimestamp(s) ==
    IF s = <<>> THEN <<>>
    ELSE InsertByTimestamp(SortedByTimestamp(SubSeq(s, 1, Len(s) - 1)),
                           s[Len(s)])

get_quiz_trend ==
    /\ ret' = [op |-> "get_quiz_trend",
               value |-> SortedByTimestamp(profile.quiz_scores)]
    /\ UNCHANGED <<profile, clock>>
    /\ UNCHANGED <<storeVars, metricVars, authVars, sessionVars,
                 graderVars, tokenVars, callVars, verdictVars>>

\* for concept in concepts_asked: freq[concept] = freq.get(concept, 0) + 1
RECURSIVE ConceptFrequency(_, _)
ConceptFrequency(concepts_asked, freq) ==
    IF concepts_asked = <<>> THEN freq
    ELSE LET c == Head(concepts_asked)
             old == IF c \in DOMAIN freq THEN freq[c] ELSE 0
         IN  ConceptFrequency(Tail(concepts_asked),
                 [k \in DOMAIN freq \cup {c} |->
                     IF k = c THEN old + 1 ELSE freq[k]])

get_concept_frequency ==
    /\ ret' = [op |-> "get_concept_frequency",
               value |-> ConceptFrequency(profile.concepts_asked, <<>>)]
    /\ UNCHANGED <<profile, clock>>
    /\ UNCHANGED <<storeVars, metricVars, authVars, sessionVars,
                 graderVars, tokenVars, callVars, verdictVars>>

----------------------------------------------------------------------------
(* eval/metrics.py *)
(*                                                                         *)
(* A text is a sequence of characters and a token a non-empty sequence of  *)
(* word characters.  A ratio computed by the code is kept exact as a       *)
(* record [n, d] with d > 0; a division by zero is the record with d = 0,  *)
(* which the caller reports as ZeroDivisionError.  Rounded outputs are     *)
(* integers in units of 10^-4 (1.0 is 10000).                              *)

MaxLen == 3        \* characters of a hypothesis or reference text

Alphabet == {"a", "b", "A", " "}

Texts == SeqsOf(Alphabet, 0, MaxLen)

\* str.lower() on one character
Lower(c) == IF c = "A" THEN "a" ELSE c

\* the class \w of the regular expression
IsWordChar(c) == c \in {"a", "b", "A"}

RECURSIVE FindAllWords(_, _, _, _)
\* re.findall(r"\w+", text): the maximal runs of word characters, in order
FindAllWords(text, i, word, found) ==
    IF i > Len(text)
    THEN IF word = <<>> THEN found ELSE Append(found, word)
    ELSE IF IsWordChar(text[i])
         THEN FindAllWords(text, i + 1, Append(word, text[i]), found)
         ELSE FindAllWords(text, i + 1, <<>>,
                           IF word = <<>> THEN found ELSE Append(found, word))

tokenize(text) ==
    FindAllWords([i \in 1..Len(text) |-> Lower(text[i])], 1, <<>>, <<>>)

Max(a, b) == IF a >= b THEN a ELSE b

RECURSIVE LcsRow(_, _, _, _, _, _)
\* the inner loop over j: fills curr[j..n] of row i from prev
LcsRow(x, y, i, j, prev, curr) ==
    IF j > Len(y) THEN curr
    ELSE LcsRow(x, y, i, j + 1, prev,
                [curr EXCEPT ![j] = IF x[i] = y[j]
                                    THEN prev[j - 1] + 1
                                    ELSE Max(curr[j - 1], prev[j])])

RECURSIVE LcsRows(_, _, _, _)
\* the outer loop over i: prev is the row of i - 1
LcsRows(x, y, i, prev) ==
    IF i > Len(x) THEN prev
    ELSE LcsRows(x, y, i + 1,
                 LcsRow(x, y, i, 1, prev, [j \in 0..Len(y) |-> 0]))

\* the length of the shorter list, whatever the tokens are
LcsLengthOfShorter(x, y) == Min(Len(x), Len(y))

\* the number of positions at which the two lists hold the same token
LcsLengthAtSamePositions(x, y) ==
    Cardinality({i \in 1..Min(Len(x), Len(y)) : x[i] = y[i]})

lcs_length(x, y) ==
    IF Len(x) = 0 \/ Len(y) = 0 THEN 0
    ELSE LcsRows(x, y, 1, [j \in 0..Len(y) |-> 0])[Len(y)]

\* a / b of two integers, exact
Quot(a, b) == IF b = 0 THEN [n |-> 0, d |-> 0] ELSE [n |-> a, d |-> b]

Raised(q) == q.d = 0

\* round(q, 4) of an exact ratio, in units of 10^-4
RoundRatio4(q) == RoundDiv(q.n * 10000, q.d)

ZeroScores == [status |-> "ok", precision |-> 0, recall |-> 0, f1 |-> 0]

\* precision * recall / (precision + recall): the factor 2 dropped
F1WithoutFactorTwo(precision, recall) ==
    Quot(precision.n * recall.n * precision.d * recall.d,
         precision.d * recall.d
            * (precision.n * recall.d + recall.n * precision.d))

\* 2 * precision * recall / (precision + recall), exact
F1Ratio(precision, recall) ==
    Quot(2 * precision.n * recall.n * precision.d * recall.d,
         precision.d * recall.d
            * (precision.n * recall.d + recall.n * precision.d))

compute_rouge_l(hyp, ref) ==
    LET hyp_tokens == tokenize(hyp)
        ref_tokens == tokenize(ref)
        lcs == lcs_length(hyp_tokens, ref_tokens)
        precision == IF hyp_tokens # <<>> THEN Quot(lcs, Len(hyp_tokens))
                     ELSE Quot(0, 1)
        recall == IF ref_tokens # <<>> THEN Quot(lcs, Len(ref_tokens))
                  ELSE Quot(0, 1)
        f1 == IF precision.n = 0 /\ recall.n = 0 THEN Quot(0, 1)
              ELSE F1Ratio(precision, recall)
    IN  IF hyp_tokens = <<>> \/ ref_tokens = <<>> THEN ZeroScores
        ELSE IF Raised(precision) \/ Raised(recall) \/ Raised(f1)
             THEN [status |-> "ZeroDivisionError"]
             ELSE [status |-> "ok",
                   precision |-> RoundRatio4(precision),
                   recall |-> RoundRatio4(recall),
                   f1 |-> RoundRatio4(f1)]

\* the n-grams of a token list, in order of position
Ngrams(tokens, n) ==
    [i \in 1..Max(Len(tokens) - n + 1, 0) |-> SubSeq(tokens, i, i + n - 1)]

\* Counter(...)[ng]: occurrences of one n-gram (0 when absent)
count_ngrams(tokens, n, ng) ==
    Cardinality({i \in DOMAIN Ngrams(tokens, n) : Ngrams(tokens, n)[i] = ng})

RECURSIVE ClippedOver(_, _, _, _)
\* the sum of min(count, ref_ngrams.get(ng, 0)) over the n-grams in S
ClippedOver(S, hyp_tokens, ref_tokens, n) ==
    IF S = {} THEN 0
    ELSE LET ng == CHOOSE e \in S : TRUE
         IN  Min(count_ngrams(hyp_tokens, n, ng),
                 count_ngrams(ref_tokens, n, ng))
             + ClippedOver(S \ {ng}, hyp_tokens, ref_tokens, n)

\* every distinct n-gram of the hypothesis found in the reference counts once
ClippedOncePerNgram(hyp_tokens, ref_tokens, n) ==
    Cardinality(Range(Ngrams(hyp_tokens, n)) \cap Range(Ngrams(ref_tokens, n)))

\* sum(min(count, ref_ngrams.get(ng, 0)) for ng, count in hyp_ngrams.items())
Clipped(hyp_tokens, ref_tokens, n) ==
    ClippedOver(Range(Ngrams(hyp_tokens, n)), hyp_tokens, ref_tokens, n)

\* sum(hyp_ngrams.values())
Total(hyp_tokens, n) == Len(Ngrams(hyp_tokens, n))

\* clipped / total without the test total == 0
NgramPrecisionUnguarded(hyp_tokens, ref_tokens, n) ==
    Quot(Clipped(hyp_tokens, ref_tokens, n), Total(hyp_tokens, n))

NgramPrecision(hyp_tokens, ref_tokens, n) ==
    IF Total(hyp_tokens, n) = 0 THEN Quot(0, 1)
    ELSE Quot(Clipped(hyp_tokens, ref_tokens, n), Total(hyp_tokens, n))

RECURSIVE Gcd(_, _)
Gcd(a, b) == IF b = 0 THEN a ELSE Gcd(b, a % b)

RECURSIVE ProductOf(_, _)
\* the exact product of the ratios p[i..]
ProductOf(p, i) ==
    IF i > Len(p) THEN Quot(1, 1)
    ELSE LET rest == ProductOf(p, i + 1)
         IN  Quot(p[i].n * rest.n, p[i].d * rest.d)

RECURSIVE SqrtSearch(_, _, _, _, _)
\* the largest r in lo..hi with (r - 1/2)^2 <= whole + part / den
SqrtSearch(lo, hi, whole, part, den) ==
    IF lo = hi THEN lo
    ELSE LET r == (lo + hi + 1) \div 2
             below == \/ r * r - r < whole
                      \/ r * r - r = whole /\ 4 * part >= den
         IN  IF below THEN SqrtSearch(r, hi, whole, part, den)
             ELSE SqrtSearch(lo, r - 1, whole, part, den)

\* round(sqrt(q), 4) of an exact ratio 0 <= q <= 1, in units of 10^-4
SqrtRound4(q) ==
    LET g == Gcd(q.n, q.d)
        scaled == 100000000 * (q.n \div g)
        den == q.d \div g
    IN  SqrtSearch(0, 10000, scaled \div den, scaled % den, den)

\* round(exp(sum(log(p) / len(precisions))) * bp, 4) in units of 10^-4,
\* for one or two precisions, none of them zero
GeometricMeanTimesBp(precisions, bp) ==
    LET prod == ProductOf(precisions, 1)
    IN  IF Len(precisions) = 1
        THEN RoundDiv(10000 * prod.n * bp.n, prod.d * bp.d)
        ELSE SqrtRound4(Quot(prod.n * bp.n * bp.n, prod.d * bp.d * bp.d))

\* no penalty for a hypothesis shorter than the reference
BrevityPenaltyIgnored(hyp_tokens, ref_tokens) == Quot(1, 1)

\* min(1.0, len(hyp_tokens) / len(ref_tokens)) if ref_tokens else 0.0
BrevityPenalty(hyp_tokens, ref_tokens) ==
    IF ref_tokens = <<>> THEN Quot(0, 1)
    ELSE IF Len(hyp_tokens) >= Len(ref_tokens) THEN Quot(1, 1)
         ELSE Quot(Len(hyp_tokens), Len(ref_tokens))

compute_bleu(hyp, ref, max_n) ==
    LET hyp_tokens == tokenize(hyp)
        ref_tokens == tokenize(ref)
        precisions == [n \in 1..max_n |->
                          NgramPrecision(hyp_tokens, ref_tokens, n)]
        bp == BrevityPenalty(hyp_tokens, ref_tokens)
    IN  IF hyp_tokens = <<>> \/ ref_tokens = <<>>
        THEN [status |-> "ok", bleu |-> 0, precisions |-> [n \in 1..max_n |-> 0]]
        ELSE IF \E n \in 1..max_n : Raised(precisions[n])
             THEN [status |-> "ZeroDivisionError"]
             ELSE [status |-> "ok",
                   bleu |-> IF \E n \in 1..max_n : precisions[n].n = 0
                            THEN 0
                            ELSE GeometricMeanTimesBp(precisions, bp),
                   precisions |-> [n \in 1..max_n |->
                                      RoundRatio4(precisions[n])]]

\* the orders of BLEU the model calls: unigram, and the default max_n = 2
MaxNs == {1, 2}

RougeL ==
    /\ metric' = [op |-> "compute_rouge_l",
                  result |-> compute_rouge_l(hypothesis, reference)]
    /\ UNCHANGED <<hypothesis, reference>>
    /\ UNCHANGED <<storeVars, profileVars, authVars, sessionVars,
                 graderVars, tokenVars, callVars, verdictVars>>

Bleu(max_n) ==
    /\ metric' = [op |-> "compute_bleu", max_n |-> max_n,
                  result |-> compute_bleu(hypothesis, reference, max_n)]
    /\ UNCHANGED <<hypothesis, reference>>
    /\ UNCHANGED <<storeVars, profileVars, authVars, sessionVars,
                 graderVars, tokenVars, callVars, verdictVars>>

----------------------------------------------------------------------------
(* auth.py *)
(*                                                                         *)
(* Usernames and passwords are sequences of characters.  The user store is *)
(* the content of the JSON file: a function from lower-cased usernames to  *)
(* user records, the empty function when the file does not exist.          *)

MaxStreak == 1     \* update_score calls per user

Usernames == {<<>>, <<"a">>, <<"A">>, <<"b">>}

Passwords == {<<>>, <<"a", "b", "A">>, <<"a", "b", "a", "b">>,
              <<"b", "a", "b", "a">>}

\* str.lower()
LowerText(text) == [i \in 1..Len(text) |-> Lower(text[i])]

\* hashlib.sha256(password.encode()).hexdigest()
hash_password(password) == <<"sha256", password>>

load_users == users

\* users[key] = record
DictSet(d, key, value) ==
    [k \in DOMAIN d \cup {key} |-> IF k = key THEN value ELSE d[k]]

AuthError(message) == [ok |-> FALSE, error |-> message]

\* username in users: the exact spelling, without lower-casing
UsernameTakenAsTyped(stored, name) == name \in DOMAIN stored

\* username.lower() in users
UsernameTaken(stored, name) == LowerText(name) \in DOMAIN stored

NewUser(name, password, now) ==
    [display_name |-> name,
     password_hash |-> hash_password(password),
     created_at |-> now,
     score |-> 0,
     quizzes_completed |-> 0,
     challenges_completed |-> 0,
     streak |-> 0,
     best_streak |-> 0,
     topics_covered |-> <<>>]

\* the result of register_user and the store it leaves
Register(stored, name, password, now) ==
    IF name = <<>> \/ password = <<>>
    THEN [result |-> AuthError("Username and password are required."),
          store |-> stored]
    ELSE IF Len(password) < 4
    THEN [result |-> AuthError("Password must be at least 4 characters."),
          store |-> stored]
    ELSE IF UsernameTaken(stored, name)
    THEN [result |-> AuthError("Username already exists."),
          store |-> stored]
    ELSE [result |-> [ok |-> TRUE],
          store |-> DictSet(stored, LowerText(name),
                            NewUser(name, password, now))]

register_user(name, password) ==
    LET r == Register(load_users, name, password, clock)
    IN  /\ users' = r.store
        /\ clock' = IF r.result.ok THEN clock + 1 ELSE clock
        /\ auth' = [op |-> "register_user", username |-> name,
                    password |-> password, result |-> r.result]
        /\ UNCHANGED <<profile, ret>>
        /\ UNCHANGED <<storeVars, metricVars, sessionVars,
                 graderVars, tokenVars, callVars, verdictVars>>

\* the result of login_user
Login(stored, name, password) ==
    IF LowerText(name) \notin DOMAIN stored
    THEN AuthError("Username not found.")
    ELSE IF stored[LowerText(name)].password_hash # hash_password(password)
    THEN AuthError("Incorrect password.")
    ELSE [ok |-> TRUE, user |-> stored[LowerText(name)]]

login_user(name, password) ==
    /\ auth' = [op |-> "login_user", username |-> name,
                password |-> password,
                result |-> Login(load_users, name, password)]
    /\ UNCHANGED users
    /\ UNCHANGED <<storeVars, profileVars, metricVars, sessionVars,
                 graderVars, tokenVars, callVars, verdictVars>>

\* the user record after update_score
Scored(user, points, category) ==
    [user EXCEPT
        !.score = @ + points,
        !.quizzes_completed = IF category = "quiz" THEN @ + 1 ELSE @,
        !.challenges_completed = IF category = "challenge" THEN @ + 1 ELSE @,
        !.streak = @ + 1,
        !.best_streak = Max(@, user.streak + 1)]

update_score(name, points, category) ==
    LET key == LowerText(name)
    IN  /\ key \in DOMAIN users => users[key].streak < MaxStreak
        /\ users' = IF key \in DOMAIN users
                    THEN DictSet(load_users, key,
                                 Scored(users[key], points, category))
                    ELSE users
        /\ auth' = [op |-> "update_score", username |-> name]
        /\ UNCHANGED <<storeVars, profileVars, metricVars, sessionVars,
                 graderVars, tokenVars, callVars, verdictVars>>

\* Python's None, and a value that is present
None == <<>>
Some(v) == <<v>>

----------------------------------------------------------------------------
(* app.py: the session of one logged-in learner, and eval/logger.py *)
(*                                                                         *)
(* One action is one run of the script after one interaction.  A prompt is *)
(* an opaque string, an answer and a chunk's content are texts.  The       *)
(* scores passed to the logger are the rounded chunk scores, in units of   *)
(* 10^-4.  The widgets and the follow-up buttons are presentation state    *)
(* and are not modelled.                                                   *)

MaxTurns == 2      \* chat turns with an API key in a session
MaxSubmits == 1    \* quiz submissions graded in a session

LogHitThreshold == 3000

Prompts == {"X"}

\* the content of every chunk of the course material
ChunkContent == <<"a", " ", "b">>

\* get_rag_answer: raises (None), or returns an empty or a non-empty text
Generated == {None, Some(<<>>), Some(<<"a">>)}

\* the relevance scores the store returns for a query, best first
SessionScoreLists == {<<>>, <<29996>>, <<90000, 10000, 10000>>}

RetrievalOutcomes ==
    {[raised |-> TRUE, scores |-> <<>>]}
        \cup {[raised |-> FALSE, scores |-> s] : s \in SessionScoreLists}

\* lines 863-872: the retrieval result of the turn, or the substitute when
\* retrieve raises
Retrieved(outcome) ==
    IF outcome.raised THEN [chunks |-> <<>>, is_confident |-> FALSE]
    ELSE IF outcome.scores = <<>> THEN EmptyResult
    ELSE BuildResult([i \in 1..Len(outcome.scores) |-> ChunkContent],
                     outcome.scores, SIMILARITY_THRESHOLD)

RECURSIVE JoinWithSpace(_)
\* " ".join(parts)
JoinWithSpace(parts) ==
    IF parts = <<>> THEN <<>>
    ELSE IF Len(parts) = 1 THEN parts[1]
    ELSE parts[1] \o <<" ">> \o JoinWithSpace(Tail(parts))

\* answer[:200] + "..." if len(answer) > 200 else answer
AnswerPreview(answer) ==
    IF Len(answer) > 200 THEN SubSeq(answer, 1, 200) \o <<".", ".", ".">>
    ELSE answer

\* sum(1 for s in retrieval_scores if s > 0.3) / len(...): strictly above
HitRateStrictlyAbove(retrieval_scores) ==
    IF retrieval_scores = <<>> THEN 0
    ELSE RoundDiv(
           Cardinality({i \in DOMAIN retrieval_scores :
                           retrieval_scores[i] > LogHitThreshold}) * 10000,
           Len(retrieval_scores))

\* round(sum(1 for s in retrieval_scores if s >= 0.3) / len(...), 4), and
\* 0.0 for no scores
HitRate(retrieval_scores) ==
    IF retrieval_scores = <<>> THEN 0
    ELSE RoundDiv(
           Cardinality({i \in DOMAIN retrieval_scores :
                           retrieval_scores[i] >= LogHitThreshold}) * 10000,
           Len(retrieval_scores))

\* round(sum(retrieval_scores) / len(retrieval_scores), 4), 0.0 for none
AvgSimilarity(retrieval_scores) ==
    IF retrieval_scores = <<>> THEN 0
    ELSE RoundDiv(PySum(retrieval_scores), Len(retrieval_scores))

\* the entry without the keys quiz_score and quiz_max
CreateLogEntryWithoutQuizKeys(query, answer, retrieval_scores, rouge_l, bleu, is_confident, now) ==
    [timestamp |-> now,
     query |-> query,
     answer_preview |-> AnswerPreview(answer),
     avg_similarity |-> AvgSimilarity(retrieval_scores),
     hit_rate |-> HitRate(retrieval_scores),
     rouge_l_f1 |-> rouge_l,
     bleu |-> bleu,
     is_confident |-> is_confident,
     hallucination_risk |-> ~is_confident]

create_log_entry(query, answer, retrieval_scores, rouge_l, bleu, is_confident, now) ==
    [timestamp |-> now,
     query |-> query,
     answer_preview |-> AnswerPreview(answer),
     avg_similarity |-> AvgSimilarity(retrieval_scores),
     hit_rate |-> HitRate(retrieval_scores),
     rouge_l_f1 |-> rouge_l,
     bleu |-> bleu,
     is_confident |-> is_confident,
     hallucination_risk |-> ~is_confident,
     quiz_score |-> None,
     quiz_max |-> None]

\* bool(answer): neither None nor the empty string
Truthy(answer) == answer # None /\ answer[1] # <<>>

\* the metric of the answer against the context, 0 without context
\* (lines 969-971)
TurnRouge(answer, context_text) ==
    IF context_text # <<>> THEN compute_rouge_l(answer, context_text).f1
    ELSE 0

TurnBleu(answer, context_text) ==
    IF context_text # <<>> THEN compute_bleu(answer, context_text, 2).bleu
    ELSE 0

\* lines 968-981: the entry of the turn
TurnLogEntry(prompt, answer, chunks, is_confident, now) ==
    LET context_text ==
            JoinWithSpace([i \in 1..Len(chunks) |-> chunks[i].content])
    IN  create_log_entry(prompt, answer,
                         [i \in 1..Len(chunks) |-> chunks[i].score],
                         TurnRouge(answer, context_text),
                         TurnBleu(answer, context_text),
                         is_confident, now)

\* the log grows at every turn, answered or not
LogsAfterEveryTurn(entries, prompt, answer, chunks, is_confident, now) ==
    Append(entries,
           TurnLogEntry(prompt, IF Truthy(answer) THEN answer[1] ELSE <<>>,
                        chunks, is_confident, now))

\* lines 968 and 981: if prompt and answer: logs.append(log_entry)
LogsAfterTurn(entries, prompt, answer, chunks, is_confident, now) ==
    IF prompt # "" /\ Truthy(answer)
    THEN Append(entries,
                TurnLogEntry(prompt, answer[1], chunks, is_confident, now))
    ELSE entries

\* the turn appends an assistant message whatever get_rag_answer did
HistoryWithAssistantAlways(history, prompt, answer) ==
    LET asked == Append(history, [role |-> "user", content |-> prompt])
    IN  Append(asked, [role |-> "assistant",
                       content |-> IF Truthy(answer) THEN answer[1]
                                   ELSE <<>>])

\* lines 858 and 926: the messages the turn appends
HistoryAfterTurn(history, prompt, answer) ==
    LET asked == Append(history, [role |-> "user", content |-> prompt])
    IN  IF Truthy(answer)
        THEN Append(asked, [role |-> "assistant", content |-> answer[1]])
        ELSE asked

sessionFrame == <<storeVars, metricVars, authVars, ret,
                  graderVars, tokenVars, callVars, verdictVars>>

\* lines 851-981: one chat turn.  Without an API key only an error is shown
\* and the test "prompt and answer" at line 968 reads the name answer, which
\* this run never bound.
ChatTurn(has_key, prompt, outcome, answer) ==
    /\ logged_in
    /\ IF ~has_key
       THEN /\ sess' = [op |-> "chat", status |-> "NameError"]
            /\ UNCHANGED <<logged_in, username, chat_history, last_chunks,
                           logs, quiz_data, quiz_answers, quiz_results,
                           turns, profile, clock>>
       ELSE LET retrieval == Retrieved(outcome)
                now == clock + 1
            IN  /\ turns.run < MaxTurns
                /\ chat_history' =
                      HistoryAfterTurn(chat_history, prompt, answer)
                /\ last_chunks' = retrieval.chunks
                /\ profile' = [profile EXCEPT
                                 !.concepts_asked = AskedAfter(@, prompt)]
                /\ logs' = LogsAfterTurn(logs, prompt, answer,
                                         retrieval.chunks,
                                         retrieval.is_confident, now)
                /\ clock' = now
                /\ turns' = [run |-> turns.run + 1,
                             answered |-> IF Truthy(answer)
                                          THEN turns.answered + 1
                                          ELSE turns.answered]
                /\ sess' = [op |-> "chat", status |-> "ok",
                            retrieval_raised |-> outcome.raised,
                            generation_raised |-> answer = None,
                            answered |-> Truthy(answer)]
                /\ UNCHANGED <<logged_in, username, quiz_data, quiz_answers,
                               quiz_results>>
    /\ UNCHANGED sessionFrame

\* the quiz the provider writes for the context
QuizOf(topic) ==
    [quiz_topic |-> topic,
     questions |-> <<[id |-> 1, type |-> "ShortAnswer",
                      correct_answer |-> "B"]>>]

QuizOutcomes == {"raised", "unparsable", "quiz"}

QuizAnswerChoices == {"", "B"}

\* lines 1012-1029 and 1036-1055: generate a quiz from the last chunks and
\* render its questions, which copies the widget values to quiz_answers
GenerateQuiz(outcome, typed) ==
    /\ logged_in
    /\ IF last_chunks # <<>> /\ outcome = "quiz"
       THEN /\ quiz_data' = Some(QuizOf("X"))
            /\ quiz_answers' = <<typed>>
            /\ quiz_results' = None
            /\ sess' = [op |-> "generate_quiz", status |-> "ok"]
       ELSE /\ sess' = [op |-> "generate_quiz",
                        status |-> IF last_chunks # <<>> /\ outcome = "raised"
                                   THEN "raised" ELSE "error"]
            /\ UNCHANGED <<quiz_data, quiz_answers, quiz_results>>
    /\ UNCHANGED <<logged_in, username, chat_history, last_chunks, logs,
                   turns, profile, clock>>
    /\ UNCHANGED sessionFrame

\* lines 1036-1055: the learner edits an answer widget
TypeAnswer(typed) ==
    /\ logged_in
    /\ quiz_data # None
    /\ quiz_answers' = <<typed>>
    /\ sess' = [op |-> "type_answer"]
    /\ UNCHANGED <<logged_in, username, chat_history, last_chunks, logs,
                   quiz_data, quiz_results, turns, profile, clock>>
    /\ UNCHANGED sessionFrame

\* grade_quiz: raises (None), or returns total_score and max_total
Gradings == {None, Some([total_score |-> 2, max_total |-> 5])}

\* logs[0]["quiz_score"] = total; logs[0]["quiz_max"] = max_total
AttachQuizToFirst(entries, total, max_total) ==
    IF entries # <<>>
    THEN [entries EXCEPT
            ![1] = DictSet(DictSet(@, "quiz_score", Some(total)),
                           "quiz_max", Some(max_total))]
    ELSE entries

\* lines 1079-1081: if logs: logs[-1]["quiz_score"] = total;
\* logs[-1]["quiz_max"] = max_total
AttachQuiz(entries, total, max_total) ==
    IF entries # <<>>
    THEN [entries EXCEPT
            ![Len(entries)] = DictSet(DictSet(@, "quiz_score", Some(total)),
                                      "quiz_max", Some(max_total))]
    ELSE entries

\* LearnerProfile.record_quiz_score on the profile p
AfterQuizScore(p, concept, score, max_score, now) ==
    LET quiz_scores == Append(p.quiz_scores,
                              QuizEntry(concept, score, max_score, now))
    IN  [p EXCEPT !.quiz_scores = quiz_scores,
                  !.weak_concepts = FlagWeak(@, quiz_scores, concept)]

\* lines 1062-1081: Submit & Grade.  grade_quiz is not guarded: when it
\* raises, the run ends before any assignment.
SubmitQuiz(graded) ==
    /\ logged_in
    /\ quiz_data # None
    /\ Len(profile.quiz_scores) < MaxSubmits
    /\ IF graded = None
       THEN /\ sess' = [op |-> "submit_quiz", status |-> "raised"]
            /\ UNCHANGED <<quiz_results, profile, clock, logs>>
       ELSE LET results == graded[1]
                now == clock + 1
            IN  /\ quiz_results' = Some(results)
                /\ profile' = AfterQuizScore(profile,
                                             quiz_data[1].quiz_topic,
                                             results.total_score,
                                             results.max_total, now)
                /\ clock' = now
                /\ logs' = AttachQuiz(logs, results.total_score,
                                      results.max_total)
                /\ sess' = [op |-> "submit_quiz", status |-> "ok"]
    /\ UNCHANGED <<logged_in, username, chat_history, last_chunks,
                   quiz_data, quiz_answers, turns>>
    /\ UNCHANGED sessionFrame

\* lines 1083-1087: Retry Quiz.  The rerun renders the questions again and
\* copies the unchanged widget values back to quiz_answers.
RetryQuiz ==
    /\ logged_in
    /\ quiz_data # None
    /\ quiz_answers' = quiz_answers
    /\ quiz_results' = None
    /\ sess' = [op |-> "retry_quiz"]
    /\ UNCHANGED <<logged_in, username, chat_history, last_chunks, logs,
                   quiz_data, turns, profile, clock>>
    /\ UNCHANGED sessionFrame

\* lines 768-771
ClearChatHistory ==
    /\ logged_in
    /\ chat_history' = <<>>
    /\ last_chunks' = <<>>
    /\ sess' = [op |-> "clear_chat"]
    /\ UNCHANGED <<logged_in, username, logs, quiz_data, quiz_answers,
                   quiz_results, turns, profile, clock>>
    /\ UNCHANGED sessionFrame

\* lines 775-778
Logout ==
    /\ logged_in
    /\ logged_in' = FALSE
    /\ username' = <<>>
    /\ sess' = [op |-> "logout"]
    /\ UNCHANGED <<chat_history, last_chunks, logs, quiz_data, quiz_answers,
                   quiz_results, turns, profile, clock>>
    /\ UNCHANGED sessionFrame

\* lines 455-479: the login page, shown while no one is logged in
LoginPage(name, password) ==
    LET result == Login(load_users, name, password)
    IN  /\ ~logged_in
        /\ logged_in' = result.ok
        /\ username' = IF result.ok THEN name ELSE username
        /\ sess' = [op |-> "login", ok |-> result.ok]
        /\ UNCHANGED <<chat_history, last_chunks, logs, quiz_data,
                       quiz_answers, quiz_results, turns, profile, clock>>
        /\ UNCHANGED sessionFrame

\* str(value), and the empty cell csv writes for None
CsvCell(key, value) ==
    IF key \in {"quiz_score", "quiz_max"}
    THEN IF value = None THEN "" ELSE <<"str", value[1]>>
    ELSE <<"str", value>>

\* csv.DictWriter(output, fieldnames=logs[0].keys()): a row with a key that
\* is no field name raises ValueError, a missing key is written empty
export_logs_csv(entries) ==
    IF entries = <<>> THEN [status |-> "ok", header |-> {}, rows |-> <<>>]
    ELSE LET fieldnames == DOMAIN entries[1]
         IN  IF \E i \in 1..Len(entries) :
                    ~(DOMAIN entries[i] \subseteq fieldnames)
             THEN [status |-> "ValueError"]
             ELSE [status |-> "ok",
                   header |-> fieldnames,
                   rows |-> [i \in 1..Len(entries) |->
                               [k \in fieldnames |->
                                   IF k \in DOMAIN entries[i]
                                   THEN CsvCell(k, entries[i][k])
                                   ELSE ""]]]

\* lines 1800-1801: the CSV download of the Insights tab
ExportLogsCsv ==
    /\ logged_in
    /\ logs # <<>>
    /\ sess' = [op |-> "export_logs_csv", result |-> export_logs_csv(logs)]
    /\ UNCHANGED <<logged_in, username, chat_history, last_chunks, logs,
                   quiz_data, quiz_answers, quiz_results, turns, profile,
                   clock>>
    /\ UNCHANGED sessionFrame

-----------------------------------------------------------------------------
(* eval/metrics.py on token lists: _lcs_length is called with two lists of *)
(* tokens, compute_bleu with the texts that tokenise to them                *)

MaxTokens == 3     \* tokens of a hypothesis or of a reference

Tokens == {<<"a">>, <<"b">>}
TokenLists == SeqsOf(Tokens, 0, MaxTokens)

\* a text whose tokens are the given ones
TextOf(tokens) == JoinWithSpace(tokens)

\* _lcs_length(x, y), and the call with the arguments exchanged
LcsLength ==
    /\ tokenMetric' = [op |-> "lcs_length",
                       result |-> lcs_length(hypWords, refWords),
                       swapped |-> lcs_length(refWords, hypWords)]
    /\ UNCHANGED <<hypWords, refWords>>
    /\ UNCHANGED <<storeVars, profileVars, metricVars, authVars, sessionVars,
                   graderVars, callVars, verdictVars>>

BleuOfWords(max_n) ==
    /\ tokenMetric' = [op |-> "compute_bleu", max_n |-> max_n,
                       result |-> compute_bleu(TextOf(hypWords),
                                               TextOf(refWords), max_n)]
    /\ UNCHANGED <<hypWords, refWords>>
    /\ UNCHANGED <<storeVars, profileVars, metricVars, authVars, sessionVars,
                   graderVars, callVars, verdictVars>>

-----------------------------------------------------------------------------
(* auth.py called from two sessions at once.  A call of register_user or   *)
(* update_score is two steps on the shared file: _load_users (with the     *)
(* change made on the loaded dict) and _save_users.  The steps of the two  *)
(* sessions interleave freely; pc holds where each session's call stands   *)
(* and what its finished calls reported.                                   *)

Sessions == {"s1", "s2"}

\* the account of each session
AccountOf(s) == IF s = "s1" THEN <<"a">> ELSE <<"b">>

Categories == {"quiz", "challenge"}

\* register_user up to the line before _save_users(users)
register_user_load(s, password) ==
    LET r == Register(load_users, AccountOf(s), password, clock)
    IN  /\ pc[s].at = "idle"
        /\ ~pc[s].registered
        /\ IF r.result.ok
           THEN /\ loaded' = [loaded EXCEPT ![s] = r.store]
                /\ pc' = [pc EXCEPT ![s].at = "save_register"]
                /\ clock' = clock + 1
           ELSE UNCHANGED <<loaded, pc, clock>>
        /\ auth' = [op |-> "register_user", username |-> AccountOf(s),
                    password |-> password, result |-> r.result]
        /\ UNCHANGED <<users, profile, ret>>
        /\ UNCHANGED <<storeVars, metricVars, sessionVars,
                       graderVars, tokenVars, verdictVars>>

\* update_score up to the line before _save_users(users); it returns at once
\* when the user is not in the loaded dict
update_score_load(s, points, category) ==
    LET key == LowerText(AccountOf(s))
    IN  /\ pc[s].at = "idle"
        /\ pc[s].registered
        /\ pc[s].scored < MaxStreak
        /\ IF key \in DOMAIN load_users
           THEN /\ loaded' = [loaded EXCEPT ![s] =
                                 DictSet(load_users, key,
                                         Scored(load_users[key], points,
                                                category))]
                /\ pc' = [pc EXCEPT ![s].at = "save_score"]
           ELSE UNCHANGED <<loaded, pc>>
        /\ auth' = [op |-> "update_score", username |-> AccountOf(s)]
        /\ UNCHANGED <<users, profileVars>>
        /\ UNCHANGED <<storeVars, metricVars, sessionVars,
                       graderVars, tokenVars, verdictVars>>

\* _save_users(users) and the return of the call
save_users(s) ==
    /\ pc[s].at \in {"save_register", "save_score"}
    /\ users' = loaded[s]
    /\ loaded' = [loaded EXCEPT ![s] = <<>>]
    /\ pc' = [pc EXCEPT ![s] =
                 IF pc[s].at = "save_register"
                 THEN [@ EXCEPT !.at = "idle", !.registered = TRUE]
                 ELSE [@ EXCEPT !.at = "idle", !.scored = @ + 1]]
    /\ UNCHANGED <<auth, profileVars>>
    /\ UNCHANGED <<storeVars, metricVars, sessionVars,
                   graderVars, tokenVars, verdictVars>>

-----------------------------------------------------------------------------
(* app.py, lines 690-705: Upload Progress *)

\* loaded.get(key, default)
FileGet(file, key, default) ==
    IF key \in DOMAIN file THEN file[key] ELSE default

\* the uploaded files: one that json.loads rejects (None), and downloads of
\* a profile without attempts, of a profile with two attempts at 40 percent
\* on X, and a file without the two lists
ProgressFiles ==
    {None,
     Some([concepts_asked |-> <<>>, quiz_scores |-> <<>>]),
     Some([concepts_asked |-> <<"X">>,
           quiz_scores |-> <<QuizEntry("X", 2, 5, 1),
                             QuizEntry("X", 2, 5, 2)>>]),
     Some([language |-> "English"])}

\* the try block: json.loads, then the assignments to the profile
RestoreProgress(uploaded) ==
    /\ IF uploaded = None
       THEN /\ ret' = [op |-> "restore_progress", status |-> "invalid"]
            /\ UNCHANGED profile
       ELSE /\ profile' = [profile EXCEPT
                             !.concepts_asked =
                                 FileGet(uploaded[1], "concepts_asked", <<>>),
                             !.quiz_scores =
                                 FileGet(uploaded[1], "quiz_scores", <<>>)]
            /\ ret' = [op |-> "restore_progress", status |-> "ok"]
    /\ UNCHANGED clock
    /\ UNCHANGED <<storeVars, metricVars, authVars, sessionVars,
                   graderVars, tokenVars, callVars, verdictVars>>

-----------------------------------------------------------------------------
(* tutor/grader.py: grade_quiz and its fallback.  Scores are in units of   *)
(* 10^-2 (1.0 = 100), the precision of round(score, 2).                     *)

MaxQuestions == 2  \* questions of a graded quiz

\* reference answers and learner answers, as sequences of characters
CorrectAnswers == {<<>>, <<"A">>, <<"a", " ", "b">>,
                   <<"a", " ", "b", " ", "c">>}
LearnerAnswers == {<<>>, <<" ", "a">>, <<"b", " ", "a">>,
                   <<"c", " ", "a", " ">>, <<"b">>}
QuestionTypes == {"MCQ", "ShortAnswer"}
QuizQuestions == [question : {"Q"}, type : QuestionTypes,
                  correct_answer : CorrectAnswers]

\* str.strip()
RECURSIVE LStrip(_)
LStrip(text) ==
    IF text # <<>> /\ text[1] = " " THEN LStrip(Tail(text)) ELSE text

RECURSIVE RStrip(_)
RStrip(text) ==
    IF text # <<>> /\ text[Len(text)] = " "
    THEN RStrip(SubSeq(text, 1, Len(text) - 1))
    ELSE text

Strip(text) == RStrip(LStrip(text))

\* text[:2]
FirstTwo(text) == SubSeq(text, 1, Min(2, Len(text)))

\* text.startswith(prefix)
StartsWith(text, prefix) ==
    /\ Len(prefix) <= Len(text)
    /\ SubSeq(text, 1, Len(prefix)) = prefix

\* set(text.split()): the words between runs of white space
RECURSIVE SplitWords(_, _, _, _)
SplitWords(text, i, word, found) ==
    LET closed == IF word = <<>> THEN found ELSE found \cup {word}
    IN  IF i > Len(text) THEN closed
        ELSE IF text[i] = " " THEN SplitWords(text, i + 1, <<>>, closed)
        ELSE SplitWords(text, i + 1, Append(word, text[i]), found)

WordSet(text) == SplitWords(text, 1, <<>>, {})

\* the MCQ branch: the option matches, or one text starts with the first
\* two characters of the other
McqIsCorrect(correct, user) ==
    \/ user = correct
    \/ StartsWith(user, FirstTwo(correct))
    \/ StartsWith(correct, FirstTwo(user))

\* the short-answer branch: round(min(overlap, 1.0), 2), or 0.0 when the
\* reference answer has no words
ShortAnswerScore(correct, user) ==
    LET correct_words == WordSet(correct)
        user_words == WordSet(user)
        common == Cardinality(correct_words \cap user_words)
    IN  IF correct_words # {}
        THEN RoundDiv(100 * Min(common, Cardinality(correct_words)),
                      Cardinality(correct_words))
        ELSE 0

\* one iteration of the loop of _fallback_grading: the result appended
GradeAnswer(q, ans, i) ==
    LET correct == LowerText(Strip(q.correct_answer))
        user == LowerText(Strip(ans))
        score == IF q.type = "MCQ"
                 THEN IF McqIsCorrect(correct, user) THEN 100 ELSE 0
                 ELSE ShortAnswerScore(correct, user)
        is_correct == IF q.type = "MCQ" THEN McqIsCorrect(correct, user)
                      ELSE score >= 70
    IN  [question_id |-> i,
         score |-> score,
         max_score |-> 100,
         is_correct |-> is_correct,
         feedback |-> IF is_correct THEN "Correct!" ELSE "Not quite right.",
         hint |-> IF is_correct THEN None ELSE Some("Review"),
         correct_answer |-> q.correct_answer]

\* total += score over the results, then round(total, 2)
TotalOfCorrectOnly(results) ==
    PySum([i \in 1..Len(results) |->
              IF results[i].is_correct THEN results[i].score ELSE 0])

TotalScore(results) == PySum([i \in 1..Len(results) |-> results[i].score])

\* zip(questions, user_answers) stops at the shorter list
fallback_grading(qs, answers) ==
    LET pairs == Min(Len(qs), Len(answers))
        results == [i \in 1..pairs |-> GradeAnswer(qs[i], answers[i], i)]
    IN  [results |-> results,
         total_score |-> TotalScore(results),
         max_total |-> 100 * Len(qs),
         overall_feedback |-> "Graded using basic matching"]

\* what llm.invoke does: it raises, or it returns text that json.loads
\* accepts (the parsed value is returned as it is) or rejects
Replies == {[kind |-> "raised"],
            [kind |-> "json", value |-> [total_score |-> 200,
                                         max_total |-> 500]],
            [kind |-> "text"]}

grade_quiz(qs, answers, reply) ==
    IF reply.kind = "raised" THEN [status |-> "raised"]
    ELSE IF reply.kind = "json"
    THEN [status |-> "ok", result |-> reply.value]
    ELSE [status |-> "ok", result |-> fallback_grading(qs, answers)]

GradeQuiz(reply) ==
    /\ grading' = [op |-> "grade_quiz", reply |-> reply.kind,
                   outcome |-> grade_quiz(questions, user_answers, reply)]
    /\ UNCHANGED <<questions, user_answers>>
    /\ UNCHANGED <<storeVars, profileVars, metricVars, authVars, sessionVars,
                   tokenVars, callVars, verdictVars>>

----------------------------------------------------------------------------
(* Initial states and specifications *)

InitStore ==
    /\ dirExists = FALSE
    /\ index = <<>>
    /\ hashFile = <<>>
    /\ last = [op |-> "none", status |-> "ok"]

InitProfile ==
    /\ profile = [concepts_asked |-> <<>>, quiz_scores |-> <<>>,
                  weak_concepts |-> <<>>]
    /\ clock = 0
    /\ ret = [op |-> "none"]

InitAuth ==
    /\ users = <<>>
    /\ auth = [op |-> "none"]

InitGrader ==
    /\ questions = <<>>
    /\ user_answers = <<>>
    /\ grading = [op |-> "none"]

InitTokens ==
    /\ hypWords = <<>>
    /\ refWords = <<>>
    /\ tokenMetric = [op |-> "none"]

InitCalls ==
    /\ pc = <<>>
    /\ loaded = <<>>

InitVerdict ==
    /\ scoreInput = <<>>
    /\ thresholdInput = SIMILARITY_THRESHOLD
    /\ verdict = [op |-> "none"]

InitSession ==
    /\ logged_in = FALSE
    /\ username = <<>>
    /\ chat_history = <<>>
    /\ last_chunks = <<>>
    /\ logs = <<>>
    /\ quiz_data = None
    /\ quiz_answers = <<>>
    /\ quiz_results = None
    /\ turns = [run |-> 0, answered |-> 0]
    /\ sess = [op |-> "none"]

Init ==
    /\ InitStore
    /\ InitProfile
    /\ InitAuth
    /\ InitSession
    /\ hypothesis = <<>>
    /\ reference = <<>>
    /\ metric = [op |-> "none"]
    /\ InitGrader
    /\ InitTokens
    /\ InitCalls
    /\ InitVerdict

Next ==
    \/ \E files \in Batches, embedOk \in BOOLEAN : ingest_pdfs(files, embedOk)
    \/ clear_vector_store
    \/ Retrieve

Spec == Init /\ [][Next]_vars

NextProfile ==
    \/ \E concept \in AskedConcepts : record_concept(concept)
    \/ \E concept \in QuizConcepts, sp \in ScorePairs, elapsed \in 0..1 :
          record_quiz_score(concept, sp[1], sp[2], elapsed)
    \/ get_quiz_trend
    \/ get_concept_frequency

SpecProfile == Init /\ [][NextProfile]_vars

\* the metrics are pure functions: every pair of texts is an initial state
InitMetrics ==
    /\ InitStore
    /\ InitProfile
    /\ InitAuth
    /\ InitSession
    /\ hypothesis \in Texts
    /\ reference \in Texts
    /\ metric = [op |-> "none"]
    /\ InitGrader
    /\ InitTokens
    /\ InitCalls
    /\ InitVerdict

NextMetrics ==
    \/ RougeL
    \/ \E max_n \in MaxNs : Bleu(max_n)

SpecMetrics == InitMetrics /\ [][NextMetrics]_vars

NextAuth ==
    \/ \E name \in Usernames, password \in Passwords :
          register_user(name, password)
    \/ \E name \in Usernames, password \in Passwords :
          login_user(name, password)
    \/ \E name \in Usernames, category \in {"quiz", "challenge"} :
          update_score(name, 10, category)

SpecAuth == Init /\ [][NextAuth]_vars

\* the password of the learner registered before the session
SessionPassword == <<"a", "b", "a", "b">>

\* a session starts with an account in the user store
InitSessionSpec ==
    /\ InitStore
    /\ InitProfile
    /\ InitSession
    /\ users = Register(<<>>, <<"a">>, SessionPassword, 0).store
    /\ auth = [op |-> "none"]
    /\ hypothesis = <<>>
    /\ reference = <<>>
    /\ metric = [op |-> "none"]
    /\ InitGrader
    /\ InitTokens
    /\ InitCalls
    /\ InitVerdict

NextSession ==
    \/ \E name \in {<<"A">>, <<"b">>} : LoginPage(name, SessionPassword)
    \/ \E has_key \in BOOLEAN, prompt \in Prompts,
          outcome \in RetrievalOutcomes, answer \in Generated :
          ChatTurn(has_key, prompt, outcome, answer)
    \/ \E outcome \in QuizOutcomes, typed \in QuizAnswerChoices :
          GenerateQuiz(outcome, typed)
    \/ \E typed \in QuizAnswerChoices : TypeAnswer(typed)
    \/ \E graded \in Gradings : SubmitQuiz(graded)
    \/ RetryQuiz
    \/ ClearChatHistory
    \/ Logout
    \/ ExportLogsCsv

SpecSession == InitSessionSpec /\ [][NextSession]_vars

\* the verdict is a pure function of the scores and the threshold: every
\* list of scores is an initial state
InitVerdictSpec ==
    /\ InitStore
    /\ InitProfile
    /\ InitAuth
    /\ InitSession
    /\ hypothesis = <<>>
    /\ reference = <<>>
    /\ metric = [op |-> "none"]
    /\ InitGrader
    /\ InitTokens
    /\ InitCalls
    /\ scoreInput \in SeqsOf(AssessedScores, 0, MaxScores)
    /\ thresholdInput \in Thresholds
    /\ verdict = [op |-> "none"]

NextVerdict == Assess

SpecVerdict == InitVerdictSpec /\ [][NextVerdict]_vars

\* every pair of token lists is an initial state
InitTokensSpec ==
    /\ InitStore
    /\ InitProfile
    /\ InitAuth
    /\ InitSession
    /\ hypothesis = <<>>
    /\ reference = <<>>
    /\ metric = [op |-> "none"]
    /\ InitGrader
    /\ InitCalls
    /\ InitVerdict
    /\ hypWords \in TokenLists
    /\ refWords \in TokenLists
    /\ tokenMetric = [op |-> "none"]

NextTokens ==
    \/ LcsLength
    \/ \E max_n \in MaxNs : BleuOfWords(max_n)

SpecTokens == InitTokensSpec /\ [][NextTokens]_vars

\* two sessions on an empty user store
InitCallsSpec ==
    /\ InitStore
    /\ InitProfile
    /\ InitAuth
    /\ InitSession
    /\ hypothesis = <<>>
    /\ reference = <<>>
    /\ metric = [op |-> "none"]
    /\ InitGrader
    /\ InitTokens
    /\ InitVerdict
    /\ pc = [s \in Sessions |->
                [at |-> "idle", registered |-> FALSE, scored |-> 0]]
    /\ loaded = [s \in Sessions |-> <<>>]

NextCalls ==
    \/ \E s \in Sessions : register_user_load(s, SessionPassword)
    \/ \E s \in Sessions, category \in Categories :
          update_score_load(s, 10, category)
    \/ \E s \in Sessions : save_users(s)

SpecCalls == InitCallsSpec /\ [][NextCalls]_vars

\* a profile that records quiz scores and is restored from uploads; the
\* clock is followed for MaxQuiz seconds
NextRestore ==
    \/ \E concept \in QuizConcepts, sp \in {<<2, 5>>, <<9, 10>>},
          elapsed \in 0..1 :
          /\ clock + elapsed <= MaxQuiz
          /\ record_quiz_score(concept, sp[1], sp[2], elapsed)
    \/ \E uploaded \in ProgressFiles : RestoreProgress(uploaded)

SpecRestore == Init /\ [][NextRestore]_vars

\* the grader is a pure function: every quiz and list of answers is an
\* initial state
InitGraderSpec ==
    /\ InitStore
    /\ InitProfile
    /\ InitAuth
    /\ InitSession
    /\ hypothesis = <<>>
    /\ reference = <<>>
    /\ metric = [op |-> "none"]
    /\ InitTokens
    /\ InitCalls
    /\ InitVerdict
    /\ questions \in SeqsOf(QuizQuestions, 0, MaxQuestions)
    /\ user_answers \in SeqsOf(LearnerAnswers, 0, MaxQuestions)
    /\ grading = [op |-> "none"]

NextGrader == \E reply \in Replies : GradeQuiz(reply)

SpecGrader == InitGraderSpec /\ [][NextGrader]_vars

----------------------------------------------------------------------------
(* Properties of the ingestion pipeline and the retriever (Spec) *)

\* file i of the batch is the first one of its name in the batch
FirstOfName(files, i) == \A j \in 1..(i - 1) : files[j].name # files[i].name

\* the persisted hash record holds exactly these bytes under this name
StoredSame(f) ==
    /\ f.name \in DOMAIN hashFile
    /\ hashFile[f.name] = <<"sha256", f.bytes>>

\* the file of the batch before file i that has the same name, 0 if none
PrevOfName(files, i) ==
    LET before == {j \in 1..(i - 1) : files[j].name = files[i].name}
    IN  IF before = {} THEN 0
        ELSE CHOOSE j \in before : \A k \in before : k <= j

\* C1: in every ingest_pdfs call a file is chunked only if the hash stored
\* for its name is absent or different: the persisted one for the first
\* file of a name in the batch, that of the previous file of the name
\* otherwise; a one-file call with bytes already stored under that name
\* returns skipped = 1, ingested = 0, total_chunks = 0 and leaves the
\* index and the hash record as they were.
C1_SkipUnchanged ==
    [][last'.op = "ingest" =>
        LET files == last'.files
        IN  /\ \A i \in Range(last'.processed) :
                  IF PrevOfName(files, i) = 0
                  THEN ~StoredSame(files[i])
                  ELSE files[PrevOfName(files, i)].bytes # files[i].bytes
            /\ (Len(files) = 1 /\ StoredSame(files[1])) =>
                  /\ last'.status = "ok"
                  /\ last'.summary =
                       [ingested |-> 0, skipped |-> 1, total_chunks |-> 0]
                  /\ index' = index
                  /\ hashFile' = hashFile]_vars

\* a one-file call that skipped its file, with that file's chunks in the index
C1_Witness ==
    /\ last.op = "ingest"
    /\ last.status = "ok"
    /\ Len(last.files) = 1
    /\ last.summary.skipped = 1
    /\ last.summary.total_chunks = 0
    /\ \E k \in 1..Len(index) :
          /\ index[k].source = last.files[1].name
          /\ index[k].bytes = last.files[1].bytes

\* C2: when a file of the batch fails to parse, the call still returns a
\* summary with ingested + skipped < number of files, and every other file
\* of the batch is recorded in the hash store.
C2_ParseFailureSkipsFile ==
    (last.op = "ingest" /\ \E i \in 1..Len(last.files) :
                               last.files[i].bytes = "corrupt") =>
        /\ last.status = "ok"
        /\ last.summary.ingested + last.summary.skipped < Len(last.files)
        /\ \A i \in 1..Len(last.files) :
              (last.files[i].bytes # "corrupt" /\
               \A j \in (i + 1)..Len(last.files) :
                   last.files[j].name # last.files[i].name)
              => StoredSame(last.files[i])

\* C3: when the embedding-and-persist step raises, the hash record and the
\* index are what they were before the call, and running the loop again on
\* the same files chunks the same files again.
C3_EmbedFailurePersistsNothing ==
    [][(last'.op = "ingest" /\ last'.status = "embed_error") =>
        /\ hashFile' = hashFile
        /\ index' = index
        /\ last'.processed # <<>>
        /\ \A i \in Range(last'.processed) :
              FirstOfName(last'.files, i) =>
                  ~(/\ last'.files[i].name \in DOMAIN hashFile'
                    /\ hashFile'[last'.files[i].name] =
                         <<"sha256", last'.files[i].bytes>>)]_vars

\* an ingest of new files whose embedding failed
C3_Witness ==
    /\ last.op = "ingest"
    /\ last.status = "embed_error"
    /\ last.processed # <<>>
    /\ ~StoredSame(last.files[last.processed[1]])

\* C4: right after clear_vector_store the index and the hash record are
\* empty; a retrieve that follows returns the empty non-confident result,
\* and an ingest that follows chunks every file it reaches that is the
\* first of its name, whatever the wiped record held.
C4_ClearResets ==
    /\ last.op = "clear" => (index = <<>> /\ hashFile = <<>> /\ ~dirExists)
    /\ (last.op = "retrieve" /\ last.after_clear) =>
          /\ last.status = "ok"
          /\ last.result =
               [chunks |-> <<>>, is_confident |-> FALSE, avg_score |-> 0]
    /\ (last.op = "ingest" /\ last.after_clear) =>
          \A i \in 1..Len(last.files) :
              (/\ FirstOfName(last.files, i)
               /\ \A j \in 1..i : last.files[j].bytes # "corrupt")
              => i \in Range(last.processed)

\* an ingest right after a clear that chunked a file the wiped record held
C4_Witness ==
    /\ last.op = "ingest"
    /\ last.after_clear
    /\ last.status = "ok"
    /\ \E i \in Range(last.processed) :
          /\ last.files[i].name \in DOMAIN last.wiped
          /\ last.wiped[last.files[i].name] = <<"sha256", last.files[i].bytes>>

\* C5: whenever the index holds no chunks, retrieve raises nothing and
\* returns {chunks: [], is_confident: false, avg_score: 0.0}, whatever the
\* provider does.
C5_EmptyIndexNeverRaises ==
    (last.op = "retrieve" /\ index = <<>>) =>
        /\ last.status = "ok"
        /\ last.result =
             [chunks |-> <<>>, is_confident |-> FALSE, avg_score |-> 0]

\* C6: is_confident is true exactly when some (unrounded) score reaches
\* similarity_threshold; with no scores it is false.
C6_ConfidentIffMaxReaches ==
    (last.op = "retrieve" /\ last.status = "ok") =>
        (last.result.is_confident <=>
            \E i \in 1..Len(last.scores) : last.scores[i] >= last.threshold)

\* a confident result of two chunks, the second below the threshold
C6_Witness ==
    /\ last.op = "retrieve"
    /\ last.status = "ok"
    /\ last.result.is_confident
    /\ Len(last.scores) = 2
    /\ last.scores[2] < last.threshold

\* C7 as stated: on the fallback path every chunk has score 1.0 and the
\* result is confident.
C7_FallbackAlwaysConfident ==
    (last.op = "retrieve" /\ last.status = "ok" /\ last.fallback) =>
        /\ \A i \in 1..Len(last.result.chunks) :
              last.result.chunks[i].score = 10000
        /\ last.result.is_confident

\* C7 amended: on the fallback path every chunk has score 1.0, and the
\* result is confident exactly when it has a chunk and similarity_threshold
\* is at most 1.0.
C7_FallbackConfidentIfAnyChunk ==
    (last.op = "retrieve" /\ last.status = "ok" /\ last.fallback) =>
        /\ \A i \in 1..Len(last.result.chunks) :
              last.result.chunks[i].score = 10000
        /\ last.result.is_confident <=>
              (last.result.chunks # <<>> /\ last.threshold <= 100000)

\* a confident fallback result with chunks
C7_Witness ==
    /\ last.op = "retrieve"
    /\ last.status = "ok"
    /\ last.fallback
    /\ last.result.chunks # <<>>
    /\ last.result.is_confident

----------------------------------------------------------------------------
(* Properties of the learner profile (SpecProfile) *)

NoDuplicates(s) == \A i, j \in 1..Len(s) : s[i] = s[j] => i = j

IsPrefix(s, t) == Len(s) <= Len(t) /\ SubSeq(t, 1, Len(s)) = s

\* positions of the quiz entries of concept c below 50 percent
LowAttempts(c) ==
    {i \in 1..Len(profile.quiz_scores) :
        /\ profile.quiz_scores[i].concept = c
        /\ profile.quiz_scores[i].percentage < 500}

\* C8: a concept is in weak_concepts exactly when quiz_scores holds at least
\* 2 entries of it with percentage < 50, and at most once; every entry's
\* percentage is 100*score/max_score to the nearest tenth, 0 when max_score
\* is 0.
C8_WeakIffTwoLowScores ==
    /\ \A c \in QuizConcepts :
          c \in Range(profile.weak_concepts) <=> Cardinality(LowAttempts(c)) >= 2
    /\ Range(profile.weak_concepts) \subseteq QuizConcepts
    /\ NoDuplicates(profile.weak_concepts)
    /\ \A i \in 1..Len(profile.quiz_scores) :
          LET e == profile.quiz_scores[i]
              d == e.percentage * e.max_score - 1000 * e.score
          IN  IF e.max_score = 0 THEN e.percentage = 0
              ELSE 2 * d <= e.max_score /\ -2 * d <= e.max_score

\* a concept flagged by its third attempt: the second one, 49.975 percent,
\* rounds to 50.0 and does not count
C8_Witness ==
    /\ profile.weak_concepts = <<"X">>
    /\ Len(profile.quiz_scores) = 3
    /\ \A i \in 1..3 : profile.quiz_scores[i].concept = "X"
    /\ profile.quiz_scores[2].score = 1999
    /\ profile.quiz_scores[2].percentage = 500

\* C9: no operation on the profile removes a concept from weak_concepts.
C9_WeakMonotonic ==
    [][Range(profile.weak_concepts) \subseteq Range(profile'.weak_concepts)]_vars

\* a flagged concept whose latest attempt passed
C9_Witness ==
    /\ "X" \in Range(profile.weak_concepts)
    /\ profile.quiz_scores # <<>>
    /\ profile.quiz_scores[Len(profile.quiz_scores)].concept = "X"
    /\ profile.quiz_scores[Len(profile.quiz_scores)].percentage >= 500

----------------------------------------------------------------------------
(* Properties of the text-overlap metrics (SpecMetrics) *)

\* the last call compared a text with itself
SelfMatch(op) == metric.op = op /\ hypothesis = reference

\* C14 as stated: for every non-empty string s, compute_rouge_l(s, s)
\* returns f1 == 1.0.  A non-empty string without a word character has no
\* tokens and scores 0.0.
C14_SelfRougeOfNonEmpty ==
    (SelfMatch("compute_rouge_l") /\ hypothesis # <<>>)
        => (metric.result.status = "ok" /\ metric.result.f1 = 10000)

\* C14 amended: for every string s with at least one token (one word
\* character), compute_rouge_l(s, s) returns f1 == 1.0.
C14_SelfRougeOfTokens ==
    (SelfMatch("compute_rouge_l") /\ tokenize(hypothesis) # <<>>)
        => (metric.result.status = "ok" /\ metric.result.f1 = 10000)

C14_Witness ==
    /\ SelfMatch("compute_rouge_l")
    /\ hypothesis = <<"a", " ", "b">>
    /\ metric.result.f1 = 10000

DisjointTokens ==
    Range(tokenize(hypothesis)) \cap Range(tokenize(reference)) = {}

\* C16: for all hypothesis and reference strings whose token sets are
\* disjoint, compute_rouge_l returns f1 == 0.0 and compute_bleu returns
\* bleu == 0.0.
C16_DisjointScoresZero ==
    (DisjointTokens /\ metric.op # "none")
        => /\ metric.result.status = "ok"
           /\ metric.op = "compute_rouge_l" => metric.result.f1 = 0
           /\ metric.op = "compute_bleu" => metric.result.bleu = 0

C16_Witness ==
    /\ metric.op = "compute_rouge_l"
    /\ hypothesis = <<"a", " ", "a">>
    /\ reference = <<"b">>
    /\ metric.result.f1 = 0

\* one of the two texts has no token
NoTokens == tokenize(hypothesis) = <<>> \/ tokenize(reference) = <<>>

\* C17: compute_rouge_l and compute_bleu never raise: when the hypothesis or
\* the reference has no tokens (empty string or no word characters) they
\* return all-zero results (precision, recall, f1 = 0; bleu = 0 and max_n
\* zero precisions), and for every other input they return a result without
\* a division by zero.
C17_MetricsNeverRaise ==
    metric.op # "none"
        => /\ metric.result.status = "ok"
           /\ (NoTokens /\ metric.op = "compute_rouge_l")
                 => /\ metric.result.precision = 0
                    /\ metric.result.recall = 0
                    /\ metric.result.f1 = 0
           /\ (NoTokens /\ metric.op = "compute_bleu")
                 => /\ metric.result.bleu = 0
                    /\ metric.result.precisions
                          = [n \in 1..metric.max_n |-> 0]

C17_Witness ==
    /\ metric.op = "compute_bleu"
    /\ metric.max_n = 2
    /\ hypothesis = <<" ", " ">>
    /\ reference = <<"a">>
    /\ metric.result = [status |-> "ok", bleu |-> 0, precisions |-> <<0, 0>>]

----------------------------------------------------------------------------
(* Properties of the user store (SpecAuth) *)

\* a stored user has this name, letter case ignored
ExistsIgnoringCase(name) ==
    \E k \in DOMAIN users :
        LowerText(users[k].display_name) = LowerText(name)

\* the stored user of this name, letter case ignored, has another password
WrongPassword(name, password) ==
    \E k \in DOMAIN users :
        /\ LowerText(users[k].display_name) = LowerText(name)
        /\ users[k].password_hash # hash_password(password)

\* C20: register_user rejects malformed input (empty username or password,
\* password shorter than 4 characters) and a username that already exists
\* case-insensitively, returning an error value and leaving the user store
\* unchanged; login_user with an unknown username or a wrong password
\* returns an error value and never changes the store.
C20_RejectionsKeepStore ==
    [][/\ (/\ auth'.op = "register_user"
           /\ \/ auth'.username = <<>>
              \/ auth'.password = <<>>
              \/ Len(auth'.password) < 4
              \/ ExistsIgnoringCase(auth'.username))
          => (~auth'.result.ok /\ users' = users)
       /\ auth'.op = "login_user" => users' = users
       /\ (/\ auth'.op = "login_user"
           /\ \/ ~ExistsIgnoringCase(auth'.username)
              \/ WrongPassword(auth'.username, auth'.password))
          => ~auth'.result.ok]_vars

C20_Witness ==
    /\ auth.op = "register_user"
    /\ auth.username = <<"A">>
    /\ auth.password = <<"a", "b", "a", "b">>
    /\ ~auth.result.ok
    /\ <<"a">> \in DOMAIN users
    /\ users[<<"a">>].display_name = <<"a">>

----------------------------------------------------------------------------
(* Properties of the session and its evaluation log (SpecSession) *)

\* C11 as stated: every chat turn (a prompt submitted with an API key set)
\* creates exactly one log entry and appends it to the session log: after
\* n chat turns the log has n entries.  A turn whose answer generation
\* raises or returns nothing adds no entry.
C11_OneEntryPerTurn == Len(logs) = turns.run

\* C11 amended: every chat turn (a prompt submitted with an API key set)
\* whose answer generation returns a non-empty answer creates exactly one
\* log entry and appends it to the session log, and a turn without an
\* answer creates none: after n answered chat turns the log has n entries.
C11_OneEntryPerAnsweredTurn ==
    /\ Len(logs) = turns.answered
    /\ (sess.op = "chat" /\ sess.status = "ok" /\ sess.answered)
          => (logs # <<>> /\ logs[Len(logs)].timestamp = clock)

C11_Witness ==
    /\ sess.op = "chat"
    /\ sess.status = "ok"
    /\ ~sess.answered
    /\ turns.run = 2
    /\ turns.answered = 1
    /\ Len(logs) = 1

\* the fields a quiz submission writes
QuizFields == {"quiz_score", "quiz_max"}

\* entry e2 is entry e1, except possibly for its quiz fields
SameButQuiz(e1, e2) ==
    /\ DOMAIN e2 = DOMAIN e1
    /\ \A k \in DOMAIN e1 \ QuizFields : e2[k] = e1[k]

\* C12: the session log is append-only: no operation (chat turn, quiz
\* submit, quiz retry, clear chat history, logout) removes or reorders
\* entries, and the only mutation of an existing entry is a quiz submission
\* writing quiz_score and quiz_max of the last entry; all other fields of
\* all entries stay unchanged.
C12_LogAppendOnly ==
    [][/\ Len(logs') >= Len(logs)
       /\ \A i \in 1..Len(logs) :
             /\ SameButQuiz(logs[i], logs'[i])
             /\ logs'[i] # logs[i]
                   => (i = Len(logs) /\ sess'.op = "submit_quiz")
       /\ Len(logs') > Len(logs)
             => (Len(logs') = Len(logs) + 1 /\ sess'.op = "chat")]_vars

C12_Witness ==
    /\ sess.op = "submit_quiz"
    /\ sess.status = "ok"
    /\ Len(logs) = 2
    /\ logs[1].quiz_score = None
    /\ logs[2].quiz_score = Some(2)
    /\ logs[2].quiz_max = Some(5)

\* the chunk scores returned to the last chat turn that reach 0.3
ChunkHits ==
    Cardinality({i \in DOMAIN last_chunks :
                    last_chunks[i].score >= LogHitThreshold})

\* the last run was a chat turn that logged an entry
TurnLogged == sess.op = "chat" /\ sess.status = "ok" /\ sess.answered

\* C13 as stated: the hit_rate of a log entry equals the fraction of the
\* retrieval scores passed to create_log_entry that are >= 0.3 (0 when
\* there are none); for a chat turn it equals the fraction of the returned
\* chunk scores >= 0.3 computed independently.  One hit among three scores
\* is logged as 0.3333, which is not 1/3.
C13_HitRateIsFraction ==
    TurnLogged
        => IF last_chunks = <<>> THEN logs[Len(logs)].hit_rate = 0
           ELSE logs[Len(logs)].hit_rate * Len(last_chunks)
                   = ChunkHits * 10000

\* C13 amended: the hit_rate of a log entry equals the fraction of the
\* retrieval scores passed to create_log_entry that are >= 0.3, rounded to
\* 4 decimal places (0 when there are none), whatever similarity_threshold
\* was used for confidence; for a chat turn it equals the fraction of the
\* returned chunk scores >= 0.3, rounded to 4 decimal places, computed
\* independently.
C13_HitRateIsRoundedFraction ==
    TurnLogged
        => LET hit_rate == logs[Len(logs)].hit_rate
               n == Len(last_chunks)
               error == hit_rate * n - ChunkHits * 10000
           IN  IF n = 0 THEN hit_rate = 0
               ELSE /\ 2 * error <= n
                    /\ 2 * error >= -n

C13_Witness ==
    /\ TurnLogged
    /\ Len(last_chunks) = 3
    /\ ChunkHits = 1
    /\ logs[Len(logs)].hit_rate = 3333
    /\ logs[Len(logs)].is_confident

\* C19: in every reachable session state all entries of the session log
\* have the same field set as the first entry (with or without a quiz
\* result attached), so export_logs_csv always succeeds and emits one
\* header row with the first entry's keys followed by one row per entry.
C19_UniformFieldsExportSucceeds ==
    /\ \A i \in 1..Len(logs) : DOMAIN logs[i] = DOMAIN logs[1]
    /\ sess.op = "export_logs_csv"
          => /\ sess.result.status = "ok"
             /\ sess.result.header = DOMAIN logs[1]
             /\ Len(sess.result.rows) = Len(logs)
             /\ \A i \in 1..Len(logs) :
                   DOMAIN sess.result.rows[i] = DOMAIN logs[1]

C19_Witness ==
    /\ sess.op = "export_logs_csv"
    /\ sess.result.status = "ok"
    /\ Len(logs) = 2
    /\ logs[1].quiz_score # None
    /\ logs[2].quiz_score = None

-----------------------------------------------------------------------------
(* Claims on tutor/grader.py, checked under SpecGrader *)

\* the last grade_quiz call got text that json.loads rejects
FellBack == grading.op = "grade_quiz" /\ grading.reply = "text"

\* C21: when the grading model returns text that is not valid JSON,
\* grade_quiz raises nothing and returns the fallback result: one result per
\* (question, answer) pair, each score in [0, 1] and 0 or 1 for an MCQ,
\* total_score the sum of the per-question scores and max_total the number
\* of questions.
C21_FallbackResultShape ==
    FellBack =>
        /\ grading.outcome.status = "ok"
        /\ LET r == grading.outcome.result
               n == Len(r.results)
           IN  /\ n = Min(Len(questions), Len(user_answers))
               /\ \A i \in 1..n :
                      /\ r.results[i].question_id = i
                      /\ r.results[i].score \in 0..100
                      /\ questions[i].type = "MCQ"
                            => r.results[i].score \in {0, 100}
               /\ r.total_score = PySum([i \in 1..n |-> r.results[i].score])
               /\ r.max_total = 100 * Len(questions)

\* a fallback grading of an MCQ and of a short answer with a partial score
C21_Witness ==
    /\ FellBack
    /\ Len(grading.outcome.result.results) = 2
    /\ questions[1].type = "MCQ"
    /\ questions[2].type = "ShortAnswer"
    /\ grading.outcome.result.results[1].score = 100
    /\ grading.outcome.result.results[2].score = 67
    /\ grading.outcome.result.total_score = 167

\* C28: fallback grading never marks an unanswered question correct: for a
\* question with a non-empty correct_answer, an empty learner answer gets
\* score 0 and is_correct false, for MCQ and short-answer questions alike.
C28_UnansweredNeverCorrect ==
    FellBack =>
        \A i \in 1..Len(grading.outcome.result.results) :
            (questions[i].correct_answer # <<>> /\ user_answers[i] = <<>>)
                => /\ grading.outcome.result.results[i].score = 0
                   /\ ~grading.outcome.result.results[i].is_correct

\* C22: a provider failure during a chat turn never crashes the session: if
\* retrieval raises, the turn continues with no chunks and is_confident
\* false; if answer generation raises, the turn ends with no assistant
\* message and no log entry added; in both cases the run raises no uncaught
\* exception and the next chat turn can proceed.
C22_ProviderFailureContained ==
    [][(turns'.run = turns.run + 1
          /\ (sess'.retrieval_raised \/ sess'.generation_raised))
       => /\ sess'.status = "ok"
          /\ logged_in'
          /\ sess'.retrieval_raised
                => /\ last_chunks' = <<>>
                   /\ logs' # logs
                         => /\ ~logs'[Len(logs')].is_confident
                            /\ logs'[Len(logs')].hit_rate = 0
          /\ sess'.generation_raised
                => /\ logs' = logs
                   /\ Len(chat_history') = Len(chat_history) + 1
                   /\ chat_history'[Len(chat_history')].role = "user"]_vars

\* a turn in which generation raised, followed by an answered turn in which
\* retrieval raised
C22_Witness ==
    /\ sess.op = "chat"
    /\ sess.status = "ok"
    /\ sess.retrieval_raised
    /\ sess.answered
    /\ turns.run = 2
    /\ turns.answered = 1
    /\ Len(chat_history) = 3
    /\ Len(logs) = 1
    /\ ~logs[1].is_confident

-----------------------------------------------------------------------------
(* Claims on the result of retrieve, checked under SpecVerdict *)

\* the result built from a non-empty list of scores
Assessed == verdict.op = "retrieve" /\ scoreInput # <<>>

\* avg_score (units of 10^-4) is the mean of the scores (units of 10^-5)
\* rounded to 4 decimal places
AvgIsRoundedMean ==
    LET n == Len(scoreInput)
        gap == 10 * n * verdict.result.avg_score - PySum(scoreInput)
    IN  -5 * n <= gap /\ gap <= 5 * n

\* C23 as stated: avg_score of a retrieve result is the arithmetic mean of
\* all returned scores rounded to 4 decimal places, and for retrieval
\* scores [0.9, 0.2, 0.1] with similarity_threshold 0.3 is_confident is
\* true and avg_score is below 0.3.
C23_ConfidentBelowThresholdAsStated ==
    Assessed =>
        /\ AvgIsRoundedMean
        /\ (scoreInput = <<90000, 20000, 10000>>
              /\ thresholdInput = SIMILARITY_THRESHOLD)
             => /\ verdict.result.is_confident
                /\ verdict.result.avg_score < 3000

\* C23: avg_score of a retrieve result is the arithmetic mean of all
\* returned scores rounded to 4 decimal places, and confidence can hold
\* while that mean is below the threshold: for retrieval scores
\* [0.3, 0.2, 0.1] with similarity_threshold 0.3, is_confident is true and
\* avg_score (0.2) is below 0.3; for [0.9, 0.2, 0.1] is_confident is true
\* and avg_score is 0.4.
C23_ConfidentBelowThreshold ==
    Assessed =>
        /\ AvgIsRoundedMean
        /\ (scoreInput = <<30000, 20000, 10000>>
              /\ thresholdInput = SIMILARITY_THRESHOLD)
             => /\ verdict.result.is_confident
                /\ verdict.result.avg_score = 2000
        /\ (scoreInput = <<90000, 20000, 10000>>
              /\ thresholdInput = SIMILARITY_THRESHOLD)
             => /\ verdict.result.is_confident
                /\ verdict.result.avg_score = 4000

\* the result for the scores [0.3, 0.2, 0.1] at the default threshold
C23_Witness ==
    /\ Assessed
    /\ scoreInput = <<30000, 20000, 10000>>
    /\ thresholdInput = SIMILARITY_THRESHOLD
    /\ verdict.result.is_confident
    /\ verdict.result.avg_score < 3000

-----------------------------------------------------------------------------
(* Claims on eval/metrics.py over token lists, checked under SpecTokens *)

\* the sequence of the tokens of x at the positions in keep, in order
RECURSIVE Pick(_, _, _)
Pick(x, keep, i) ==
    IF i > Len(x) THEN <<>>
    ELSE IF i \in keep THEN <<x[i]>> \o Pick(x, keep, i + 1)
    ELSE Pick(x, keep, i + 1)

Subsequences(x) == {Pick(x, keep, 1) : keep \in SUBSET (1..Len(x))}

\* the length of a longest common subsequence, by enumeration
LongestCommon(x, y) ==
    LET common == Subsequences(x) \cap Subsequences(y)
    IN  CHOOSE n \in 0..Len(x) :
            /\ \E s \in common : Len(s) = n
            /\ \A s \in common : Len(s) <= n

\* the full-table recurrence on the prefixes x[1..i] and y[1..j]
RECURSIVE LcsTable(_, _, _, _)
LcsTable(x, y, i, j) ==
    IF i = 0 \/ j = 0 THEN 0
    ELSE IF x[i] = y[j] THEN LcsTable(x, y, i - 1, j - 1) + 1
    ELSE LET up == LcsTable(x, y, i - 1, j)
             left == LcsTable(x, y, i, j - 1)
         IN  IF up >= left THEN up ELSE left

\* C24: for all token sequences x and y, _lcs_length(x, y) is the length of
\* a longest common subsequence of x and y (the value of the full-table
\* recurrence), is 0 when either is empty, and equals _lcs_length(y, x).
C24_LcsLengthIsLongestCommon ==
    tokenMetric.op = "lcs_length" =>
        /\ tokenMetric.result = LongestCommon(hypWords, refWords)
        /\ tokenMetric.result =
              LcsTable(hypWords, refWords, Len(hypWords), Len(refWords))
        /\ (hypWords = <<>> \/ refWords = <<>>) => tokenMetric.result = 0
        /\ tokenMetric.swapped = tokenMetric.result

\* a longest common subsequence shorter than both lists, its tokens at
\* different positions of the two lists
C24_Witness ==
    /\ tokenMetric.op = "lcs_length"
    /\ hypWords = <<<<"a">>, <<"b">>, <<"a">>>>
    /\ refWords = <<<<"b">>, <<"a">>, <<"b">>>>
    /\ tokenMetric.result = 2

\* occurrences of the n-gram ng in a token list
Occurrences(tokens, n, ng) ==
    Cardinality({i \in 1..(Len(tokens) - n + 1) :
                    SubSeq(tokens, i, i + n - 1) = ng})

DistinctNgrams(tokens, n) ==
    {SubSeq(tokens, i, i + n - 1) : i \in 1..(Len(tokens) - n + 1)}

RECURSIVE SumOfClipped(_, _, _, _)
\* the sum over the n-grams in S of min(hyp_count, ref_count)
SumOfClipped(S, hyp, ref, n) ==
    IF S = {} THEN 0
    ELSE LET ng == CHOOSE e \in S : TRUE
         IN  Min(Occurrences(hyp, n, ng), Occurrences(ref, n, ng))
             + SumOfClipped(S \ {ng}, hyp, ref, n)

ClippedMatches(n) ==
    SumOfClipped(DistinctNgrams(hypWords, n), hypWords, refWords, n)

HypNgrams(n) == IF Len(hypWords) >= n THEN Len(hypWords) - n + 1 ELSE 0

\* compute_bleu was applied to two non-empty token lists
BleuOfNonEmpty ==
    /\ tokenMetric.op = "compute_bleu"
    /\ hypWords # <<>>
    /\ refWords # <<>>

\* C25 as stated: for non-empty token sequences compute_bleu reports for
\* each n in 1..max_n the precision (sum over distinct hypothesis n-grams
\* of min(hyp_count, ref_count)) / (number of hypothesis n-grams), 0 when
\* the hypothesis has no n-grams of that order; if any of these is 0 the
\* reported bleu is 0, and otherwise bleu never exceeds the brevity
\* penalty min(1, len(hyp)/len(ref)).
C25_BleuPrecisionsAsStated ==
    BleuOfNonEmpty =>
        LET r == tokenMetric.result
            orders == 1..tokenMetric.max_n
        IN  /\ r.status = "ok"
            /\ \A n \in orders :
                   IF HypNgrams(n) = 0 THEN r.precisions[n] = 0
                   ELSE r.precisions[n] * HypNgrams(n)
                            = 10000 * ClippedMatches(n)
            /\ IF \E n \in orders : ClippedMatches(n) = 0
               THEN r.bleu = 0
               ELSE r.bleu * Len(refWords)
                       <= 10000 * Min(Len(hypWords), Len(refWords))

\* C25: for non-empty token sequences compute_bleu reports for each n in
\* 1..max_n the precision (sum over distinct hypothesis n-grams of
\* min(hyp_count, ref_count)) / (number of hypothesis n-grams) rounded to
\* 4 decimal places, 0 when the hypothesis has no n-grams of that order;
\* if any of these is 0 the reported bleu is 0, and otherwise bleu never
\* exceeds the brevity penalty min(1, len(hyp)/len(ref)) rounded to 4
\* decimal places.
C25_BleuPrecisionsRounded ==
    BleuOfNonEmpty =>
        LET r == tokenMetric.result
            orders == 1..tokenMetric.max_n
        IN  /\ r.status = "ok"
            /\ \A n \in orders :
                   IF HypNgrams(n) = 0 THEN r.precisions[n] = 0
                   ELSE r.precisions[n]
                            = RoundDiv(10000 * ClippedMatches(n), HypNgrams(n))
            /\ IF \E n \in orders : ClippedMatches(n) = 0
               THEN r.bleu = 0
               ELSE r.bleu
                       <= RoundDiv(10000 * Min(Len(hypWords), Len(refWords)),
                                   Len(refWords))

\* a hypothesis of two tokens that opens a reference of three: both
\* precisions are 1 and bleu is the rounded brevity penalty 2/3
C25_Witness ==
    /\ BleuOfNonEmpty
    /\ tokenMetric.max_n = 2
    /\ hypWords = <<<<"a">>, <<"b">>>>
    /\ refWords = <<<<"a">>, <<"b">>, <<"a">>>>
    /\ tokenMetric.result.precisions = <<10000, 10000>>
    /\ tokenMetric.result.bleu = 6667

-----------------------------------------------------------------------------
(* Claim on the content of the index, checked under Spec *)

\* C26: after any sequence of ingest_pdfs calls, for each file name the
\* index holds chunks of only the most recently ingested content of that
\* name (the content whose hash the hash record keeps for the name):
\* re-ingesting a file whose bytes changed replaces its earlier chunks
\* rather than adding to them.
C26_IndexHoldsLatestContentOnly ==
    \A i \in 1..Len(index) :
        index[i].source \in DOMAIN load_hash_store
            => compute_file_hash(index[i].bytes)
                   = load_hash_store[index[i].source]

-----------------------------------------------------------------------------
(* Claim on the log entries of the session, checked under SpecSession *)

\* C27: in every log entry created by a chat turn (retrieval at the default
\* similarity_threshold 0.3) the confidence flag and the hit-rate agree:
\* is_confident is true exactly when hit_rate > 0.
C27_ConfidentIffHit ==
    \A i \in 1..Len(logs) : logs[i].is_confident <=> logs[i].hit_rate > 0

-----------------------------------------------------------------------------
(* Claim on the shared user store, checked under SpecCalls *)

\* no call is between its load and its save
AllReturned == \A s \in Sessions : pc[s].at = "idle"

\* C29: updates to the shared user store from concurrent sessions are not
\* lost: when two sessions run register_user or update_score for different
\* users concurrently, in every interleaving of their load and save steps
\* the store afterwards reflects both changes: every account whose
\* registration returned ok is in the store, with as many scored calls as
\* update_score saved for it.
C29_NoLostUpdate ==
    AllReturned =>
        \A s \in Sessions :
            pc[s].registered
                => /\ LowerText(AccountOf(s)) \in DOMAIN users
                   /\ users[LowerText(AccountOf(s))].streak = pc[s].scored
                   /\ users[LowerText(AccountOf(s))].score
                         = 10 * pc[s].scored

-----------------------------------------------------------------------------
(* Claim on Upload Progress, checked under SpecRestore *)

\* C30: restoring progress from an uploaded file keeps the learner profile
\* consistent: right after the restore, weak_concepts contains exactly the
\* concepts that have at least 2 entries with percentage < 50 in the
\* restored quiz_scores.
C30_RestoreKeepsWeakConsistent ==
    (ret.op = "restore_progress" /\ ret.status = "ok")
        => \A c \in QuizConcepts :
               c \in Range(profile.weak_concepts)
                   <=> Cardinality(LowAttempts(c)) >= 2

=============================================================================
